---- MODULE Spec2Model ----
(***************************************************************************)
(* rxddit-discord-bot: the message ledger (MessageDatabase, the SQLite     *)
(* tables messages and reactions) and the Discord event handlers that      *)
(* drive it.                                                               *)
(*                                                                         *)
(* Spec     the ledger alone, driven call by call as the test suites drive *)
(*          it (createTestDatabase, then any sequence of method calls).    *)
(* SpecBot  the event handlers of bot.ts on top of the same ledger; the    *)
(*          handlers are cut at their await points, which is where two     *)
(*          invocations interleave on the single JavaScript thread.        *)
(* SpecSweep   SpecBot with the clock running and the runCleanup timer      *)
(*          firing between the handlers' steps.                            *)
(* SpecTables  the ledger's queries and the purge, started on any tables.  *)
(* SpecListing the ledger's listings by author and by channel.              *)
(* SpecLog     Spec on a database file that holds a record and a reaction.  *)
(* SpecLinks   the link utilities of linkUtils.ts, applied to a text.      *)
(* SpecSurface the reaction handlers of the three bot.ts, for reactions on  *)
(*          original and on replacement messages.                          *)
(* SpecEmbed   the third bot.ts: the message-created handler with embed     *)
(*          suppression and the delayed auto-revert, and reactions on the  *)
(*          replacement message.                                           *)
(***************************************************************************)
EXTENDS Integers, Sequences, FiniteSets, Bags, TLC

VARIABLES
    messages,     \* table messages: message_id -> row
    reactions,    \* table reactions: the rows in insertion order
    seq,          \* sqlite_sequence of reactions (AUTOINCREMENT)
    foreignKeys,  \* whether the SQLite build enforces FOREIGN KEY clauses
    now,          \* Date.now()
    last,         \* the last call made: function, key, argument or result, outcome, the key's row before
    calls,        \* number of ledger calls made so far (Spec)
    suppressed,   \* the original messages whose embeds are suppressed (third bot.ts)
    content,      \* the text handed to the link utilities (SpecLinks)
    variant,      \* which bot.ts runs: 1 (lines 1-257), 2 (259-485), 3 (487-828); 0 in Spec
    handlers,     \* the bag of event handler invocations in flight, each at an await
    done,         \* the handler invocation that ended last, and how it ended
    events,       \* number of gateway events delivered so far
    posted,       \* the bot's replacement messages that exist in the channel
    botReaction,  \* the messages that carry the bot's own reaction
    sent,         \* number of replacement messages posted so far
    deletes       \* per replacement message, the delete() calls made on it

ledgerVars == <<messages, reactions, seq, foreignKeys>>

botVars == <<variant, content, suppressed, handlers, done, events, posted, botReaction, sent, deletes>>

vars ==
    <<messages, reactions, seq, foreignKeys, now, last, calls,
      variant, content, suppressed, handlers, done, events, posted, botReaction, sent, deletes>>

(***************************************************************************)
(* Bounds of the model.                                                    *)
(***************************************************************************)
MaxTime == 1

MaxCalls == 3

MaxHandlers == 2

MaxEvents == 3

MaxRows == 2

MaxLimit == 2

\* The number of pieces a text is put together from (Texts).
MaxPieces == 3

\* Discord ids are strings.
MsgIds == {"m1", "m2"}

MsgIds_First == "m1"

BotMsgIds == {"b1", "b2"}

Times == 0..MaxTime

Users == {"u1", "u2"}

Contents ==
    {<<"https://", "reddit.com", "/r/", "one", " ",
       "http://", "old.", "reddit.com", "/r/", "one", " ",
       "https://", "reddit.com", "/r/", "one">>,
     <<"HTTPS://", "new.", "REDDIT.COM", "/r/", "Two", "/">>}

\* JavaScript's undefined: what reading a property an object lacks yields.
Undefined == "undefined"

\* obj[f] of a JavaScript object literal.
Get(obj, f) == IF f \in DOMAIN obj THEN obj[f] ELSE Undefined

(***************************************************************************)
(* linkUtils.ts. A text is a sequence of tokens, each a stretch of          *)
(* characters that the two regular expressions take or leave as a whole: a  *)
(* scheme, a host label, a host, the /r/ prefix, a stretch of other         *)
(* non-space characters, one white-space character. The i flag makes the    *)
(* upper-case scheme and host match like the lower-case ones.               *)
(***************************************************************************)
Schemes == {"http://", "https://", "HTTPS://"}

RedditHosts == {"reddit.com", "REDDIT.COM"}

WhiteSpace == {" ", "\n"}

\* https?:\/\/(www\.)?reddit\.com (pattern 1) and https?:\/\/(old|new)\.reddit\.com
\* (pattern 2) tried at position i of s: the position after the host, 0 for no
\* match there.
hostEnd(pattern, s, i) ==
    IF i + 1 > Len(s) \/ s[i] \notin Schemes
    THEN 0
    ELSE IF pattern = 1 /\ s[i + 1] \in RedditHosts
    THEN i + 2
    ELSE IF /\ i + 2 <= Len(s)
            /\ s[i + 1] \in (IF pattern = 1 THEN {"www."} ELSE {"old.", "new."})
            /\ s[i + 2] \in RedditHosts
    THEN i + 3
    ELSE 0

\* [^\s]+ from position j: the last position of the longest stretch without white
\* space that starts at j.
RECURSIVE nonSpaceEnd(_, _)
nonSpaceEnd(s, j) ==
    IF j + 1 <= Len(s) /\ s[j + 1] \notin WhiteSpace
    THEN nonSpaceEnd(s, j + 1)
    ELSE j

\* REDDIT_PATTERNS[pattern - 1] tried at position i of s: the last position of the
\* match, 0 for no match there.
matchEnd(pattern, s, i) ==
    LET j == hostEnd(pattern, s, i)
    IN  IF j = 0 \/ j + 1 > Len(s) \/ s[j] # "/r/" \/ s[j + 1] \in WhiteSpace
        THEN 0
        ELSE nonSpaceEnd(s, j + 1)

\* content.match(pattern) of a global pattern: the matches from left to right,
\* each search starting after the match before it (<< >> for null).
RECURSIVE matchFrom(_, _, _)
matchFrom(pattern, s, i) ==
    IF i > Len(s)
    THEN << >>
    ELSE LET k == matchEnd(pattern, s, i)
         IN  IF k = 0
             THEN matchFrom(pattern, s, i + 1)
             ELSE <<SubSeq(s, i, k)>> \o matchFrom(pattern, s, k + 1)

\* [...new Set(links)]: the first occurrence of every value, in insertion order.
RECURSIVE unique(_)
unique(links) ==
    IF links = << >>
    THEN << >>
    ELSE LET rest == unique(SubSeq(links, 1, Len(links) - 1))
             x == links[Len(links)]
         IN  IF \E i \in 1..Len(rest) : rest[i] = x THEN rest ELSE Append(rest, x)

\* Mutant: the matches are returned as pushed, duplicates kept.
detectRedditLinks_Duplicates(text) ==
    matchFrom(1, text, 1) \o matchFrom(2, text, 1)

\* Mutant: the /r/ prefix is not required of the path.
detectRedditLinks_AnyPath(text) ==
    unique(matchFrom(1, [i \in 1..Len(text) |->
                            IF text[i] = "/user/" THEN "/r/" ELSE text[i]], 1))

\* detectRedditLinks: the matches of the first pattern, then those of the second,
\* without duplicates.
detectRedditLinks(text) ==
    unique(matchFrom(1, text, 1) \o matchFrom(2, text, 1))

\* url.replace(/https?:\/\/...reddit\.com/gi, 'https://rxddit.com') from position
\* i on: every match of the host pattern is replaced.
RECURSIVE replaceHost(_, _, _)
replaceHost(pattern, s, i) ==
    IF i > Len(s)
    THEN << >>
    ELSE LET j == hostEnd(pattern, s, i)
         IN  IF j = 0
             THEN <<s[i]>> \o replaceHost(pattern, s, i + 1)
             ELSE <<"https://", "rxddit.com">> \o replaceHost(pattern, s, j)

convertToRxddit(url) == replaceHost(2, replaceHost(1, url, 1), 1)

\* convertedContent.replace(pattern, (match) => convertToRxddit(match)) from
\* position i on.
RECURSIVE replaceLinks(_, _, _)
replaceLinks(pattern, s, i) ==
    IF i > Len(s)
    THEN << >>
    ELSE LET k == matchEnd(pattern, s, i)
         IN  IF k = 0
             THEN <<s[i]>> \o replaceLinks(pattern, s, i + 1)
             ELSE convertToRxddit(SubSeq(s, i, k)) \o replaceLinks(pattern, s, k + 1)

\* Mutant: the second pattern is never applied.
convertMessageLinks_FirstPattern(text) == replaceLinks(1, text, 1)

\* Mutant: the whole text is handed to convertToRxddit.
convertMessageLinks_WholeText(text) == convertToRxddit(text)

\* convertMessageLinks: the first pattern's matches replaced, then the second's in
\* the outcome of that.
convertMessageLinks(text) == replaceLinks(2, replaceLinks(1, text, 1), 1)

\* JSON.stringify of an array of strings, token by token: brackets, every string
\* between quotes, commas in between. (No token of a link holds a quote or a
\* backslash, so no escape is written.)
RECURSIVE JSONstringifyItems(_, _)
JSONstringifyItems(links, i) ==
    IF i > Len(links)
    THEN << >>
    ELSE (IF i > 1 THEN <<",">> ELSE << >>) \o <<"\"">> \o links[i] \o <<"\"">>
            \o JSONstringifyItems(links, i + 1)

JSONstringify(links) == <<"[">> \o JSONstringifyItems(links, 1) \o <<"]">>

\* The position of the next quote of json from position i on.
RECURSIVE nextQuote(_, _)
nextQuote(json, i) ==
    IF i > Len(json) \/ json[i] = "\"" THEN i ELSE nextQuote(json, i + 1)

\* JSON.parse of such a text from position i on: the strings between the quotes.
RECURSIVE JSONparse(_, _)
JSONparse(json, i) ==
    LET open == nextQuote(json, i)
        close == nextQuote(json, open + 1)
    IN  IF open > Len(json)
        THEN << >>
        ELSE <<SubSeq(json, open + 1, close - 1)>> \o JSONparse(json, close + 1)

\* Mutant: the converted links are deduplicated after the conversion.
convertedLinksOf_Unique(redditLinks) ==
    unique([i \in 1..Len(redditLinks) |-> convertToRxddit(redditLinks[i])])

\* const convertedLinks = redditLinks.map(link => convertToRxddit(link))
convertedLinksOf(redditLinks) ==
    [i \in 1..Len(redditLinks) |-> convertToRxddit(redditLinks[i])]

\* The link fields of the object that the message-created handler passes to
\* db.storeMessage: originalLinks: JSON.stringify(redditLinks), convertedLinks:
\* JSON.stringify(convertedLinks), for a message of this content.
linkFields(text) ==
    [originalLinks  |-> JSONstringify(detectRedditLinks(text)),
     convertedLinks |-> JSONstringify(convertedLinksOf(detectRedditLinks(text)))]

(***************************************************************************)
(* MessageDatabase                                                         *)
(***************************************************************************)

\* Mutant: INSERT OR IGNORE, which keeps the row the key already has.
storeMessage_Ignore(msgs, message) ==
    IF message.messageId \in DOMAIN msgs
    THEN msgs
    ELSE [m \in DOMAIN msgs \cup {message.messageId} |->
            IF m = message.messageId
            THEN [channelId       |-> message.channelId,
                  authorId        |-> message.authorId,
                  originalContent |-> message.originalContent,
              originalLinks   |-> message.originalLinks,
              convertedLinks  |-> message.convertedLinks,
                  botMessageId    |-> message.botMessageId,
                  createdAt       |-> message.createdAt,
                  isReverted      |-> FALSE]
            ELSE msgs[m]]

\* INSERT OR REPLACE INTO messages (...) VALUES (..., 0): the row of the key is
\* replaced whole, is_reverted = 0.
storeMessage(msgs, message) ==
    [m \in DOMAIN msgs \cup {message.messageId} |->
        IF m = message.messageId
        THEN [channelId       |-> message.channelId,
              authorId        |-> message.authorId,
              originalContent |-> message.originalContent,
              originalLinks   |-> message.originalLinks,
              convertedLinks  |-> message.convertedLinks,
              botMessageId    |-> message.botMessageId,
              createdAt       |-> message.createdAt,
              isReverted      |-> FALSE]
        ELSE msgs[m]]

\* SELECT ... FROM messages WHERE message_id = ?: the row in a set, {} for null.
getMessage(msgs, messageId) ==
    IF messageId \in DOMAIN msgs THEN {msgs[messageId]} ELSE {}

hasMessage(msgs, messageId) == messageId \in DOMAIN msgs

\* The lookup of a record by its replacement message's id (bot_message_id): the
\* records of that replacement message, with their message_id, in a set; {} for
\* none.
getMessageByBotMessageId(msgs, botMessageId) ==
    {[messageId |-> m] @@ msgs[m] : m \in {k \in DOMAIN msgs :
                                             msgs[k].botMessageId = botMessageId}}

\* Mutant: SET is_reverted = 1 - is_reverted, a toggle.
markAsRevertedRows_Toggle(msgs, messageId) ==
    [m \in DOMAIN msgs |->
        IF m = messageId
        THEN [msgs[m] EXCEPT !.isReverted = ~msgs[m].isReverted]
        ELSE msgs[m]]

\* Mutant: the UPDATE without its WHERE clause, every row set.
markAsRevertedRows_NoWhere(msgs, messageId) ==
    [m \in DOMAIN msgs |-> [msgs[m] EXCEPT !.isReverted = TRUE]]

\* UPDATE messages SET is_reverted = 1 WHERE message_id = ?: the table afterwards.
markAsRevertedRows(msgs, messageId) ==
    [m \in DOMAIN msgs |->
        IF m = messageId THEN [msgs[m] EXCEPT !.isReverted = TRUE] ELSE msgs[m]]

\* Mutant: the UPDATE without its WHERE clause.
markAsRevertedChanges_NoWhere(msgs, messageId) == Cardinality(DOMAIN msgs)

\* result.changes of that UPDATE: the rows its WHERE clause matches.
markAsRevertedChanges(msgs, messageId) ==
    Cardinality({m \in DOMAIN msgs : m = messageId})

\* return result.changes > 0
markAsReverted(msgs, messageId) == markAsRevertedChanges(msgs, messageId) > 0

\* Mutant: reactions on a reverted message are refused.
storeReactionThrows_Reverted(msgs, fk, reaction) ==
    \/ Get(reaction, "odId") = Undefined
    \/ fk /\ reaction.messageId \notin DOMAIN msgs
    \/ reaction.messageId \in DOMAIN msgs /\ msgs[reaction.messageId].isReverted

\* stmt.run of INSERT INTO reactions throws when a bound value is undefined
\* (better-sqlite3 binds numbers, strings, bigints, buffers and null; user_id is
\* NOT NULL besides) and, under foreign key enforcement, when message_id names no
\* row of messages. The user_id bound is reaction.odId.
storeReactionThrows(msgs, fk, reaction) ==
    \/ Get(reaction, "odId") = Undefined
    \/ fk /\ reaction.messageId \notin DOMAIN msgs

\* The row INSERT INTO reactions adds; id from AUTOINCREMENT.
storeReactionRow(sq, reaction) ==
    [id               |-> sq + 1,
     messageId        |-> reaction.messageId,
     odId             |-> Get(reaction, "odId"),
     reactedAt        |-> reaction.reactedAt,
     isRevertReaction |-> reaction.isRevertReaction]

\* Mutant: INTEGER PRIMARY KEY without AUTOINCREMENT, the largest id in the table
\* plus one.
storeReaction_MaxRowid(rs, sq, reaction) ==
    Append(rs, [storeReactionRow(sq, reaction) EXCEPT
                    !.id = IF rs = << >> THEN 1 ELSE rs[Len(rs)].id + 1])

\* INSERT INTO reactions: the table afterwards.
storeReaction(rs, sq, reaction) == Append(rs, storeReactionRow(sq, reaction))

\* SELECT ... FROM reactions WHERE message_id = ?: the rows, in rowid order.
reactionsOf(rs, messageId) == SelectSeq(rs, LAMBDA r : r.messageId = messageId)

\* Mutant: ORDER BY id, the order of insertion.
getReactions_InsertionOrder(rs, messageId) == {reactionsOf(rs, messageId)}

\* ... ORDER BY reacted_at ASC: the results the query can give. SQL leaves the
\* order of rows with equal reacted_at open, so there is one result for every
\* arrangement of the rows that ascends in reactedAt.
getReactions(rs, messageId) ==
    LET rows == reactionsOf(rs, messageId)
        n == Len(rows)
        Ascending(p) ==
            \A i, j \in 1..n : i < j => rows[p[i]].reactedAt <= rows[p[j]].reactedAt
    IN  {[i \in 1..n |-> rows[p[i]]] : p \in {q \in Permutations(1..n) : Ascending(q)}}

\* Mutant: revertedCount counts the revert reactions instead of the reverted
\* records.
getStats_CountRevertReactions(msgs, rs) ==
    [totalMessages |-> Cardinality(DOMAIN msgs),
     totalReactions |-> Len(rs),
     revertedCount |-> Cardinality({i \in 1..Len(rs) : rs[i].isRevertReaction})]

\* SELECT COUNT(*) FROM messages; SELECT COUNT(*) FROM reactions;
\* SELECT COUNT(*) FROM messages WHERE is_reverted = 1
getStats(msgs, rs) ==
    [totalMessages |-> Cardinality(DOMAIN msgs),
     totalReactions |-> Len(rs),
     revertedCount |-> Cardinality({m \in DOMAIN msgs : msgs[m].isReverted})]

\* SELECT message_id as messageId, ... FROM messages WHERE <ids> ORDER BY
\* created_at DESC LIMIT ?: the results the query can give for the rows of ids.
\* SQL leaves the order of rows with equal created_at open; a negative LIMIT is no
\* limit.
selectNewest(msgs, ids, limit) ==
    LET n == Cardinality(ids)
        Descending(p) ==
            \A i, j \in 1..n : i < j => msgs[p[i]].createdAt >= msgs[p[j]].createdAt
        orders == {p \in [1..n -> ids] :
                      (\A i, j \in 1..n : p[i] = p[j] => i = j) /\ Descending(p)}
        len == IF limit < 0 \/ limit > n THEN n ELSE limit
    IN  {[i \in 1..len |-> [messageId |-> p[i]] @@ msgs[p[i]]] : p \in orders}

\* Mutant: ORDER BY created_at ASC.
getMessagesByAuthor_Oldest(msgs, authorId, limit) ==
    LET ids == {m \in DOMAIN msgs : msgs[m].authorId = authorId}
        n == Cardinality(ids)
        orders == {p \in [1..n -> ids] :
                      /\ \A i, j \in 1..n : p[i] = p[j] => i = j
                      /\ \A i, j \in 1..n :
                            i < j => msgs[p[i]].createdAt <= msgs[p[j]].createdAt}
        len == IF limit < 0 \/ limit > n THEN n ELSE limit
    IN  {[i \in 1..len |-> [messageId |-> p[i]] @@ msgs[p[i]]] : p \in orders}

\* ... WHERE author_id = ? ORDER BY created_at DESC LIMIT ?
getMessagesByAuthor(msgs, authorId, limit) ==
    selectNewest(msgs, {m \in DOMAIN msgs : msgs[m].authorId = authorId}, limit)

\* ... WHERE channel_id = ? ORDER BY created_at DESC LIMIT ?
getMessagesByChannel(msgs, channelId, limit) ==
    selectNewest(msgs, {m \in DOMAIN msgs : msgs[m].channelId = channelId}, limit)

\* DELETE FROM messages WHERE message_id = ?, which a reaction row referencing
\* the message makes fail under foreign key enforcement.
deleteMessageThrows(msgs, rs, fk, messageId) ==
    /\ fk
    /\ messageId \in DOMAIN msgs
    /\ \E i \in 1..Len(rs) : rs[i].messageId = messageId

deleteMessageRows(msgs, messageId) ==
    [m \in DOMAIN msgs \ {messageId} |-> msgs[m]]

deleteMessage(msgs, messageId) == messageId \in DOMAIN msgs

\* SELECT message_id FROM messages WHERE created_at < ?
OlderThan(msgs, cutoffTime) == {m \in DOMAIN msgs : msgs[m].createdAt < cutoffTime}

\* Mutant: the purge forgets the reactions.
cleanupReactions_None(msgs, rs, cutoffTime) == rs

\* DELETE FROM reactions WHERE message_id IN (SELECT ...)
cleanupReactions(msgs, rs, cutoffTime) ==
    SelectSeq(rs, LAMBDA r : r.messageId \notin OlderThan(msgs, cutoffTime))

\* DELETE FROM messages WHERE created_at < ?
cleanupMessages(msgs, cutoffTime) ==
    [m \in DOMAIN msgs \ OlderThan(msgs, cutoffTime) |-> msgs[m]]

\* return result.changes
cleanupOldMessages(msgs, cutoffTime) == Cardinality(OlderThan(msgs, cutoffTime))

(***************************************************************************)
(* The ledger driven call by call.                                         *)
(***************************************************************************)
NoCall ==
    [op |-> "none", id |-> "", arg |-> << >>, threw |-> FALSE, bool |-> FALSE,
     num |-> 0, pre |-> {}]

Called(op, id, arg, threw, b, n) ==
    /\ calls < MaxCalls
    /\ calls' = calls + 1
    /\ last' = [op |-> op, id |-> id, arg |-> arg, threw |-> threw, bool |-> b,
                num |-> n, pre |-> getMessage(messages, id)]
    /\ UNCHANGED botVars

InitLedger ==
    /\ messages = << >>
    /\ reactions = << >>
    /\ seq = 0
    /\ foreignKeys \in BOOLEAN
    /\ now = 0
    /\ last = NoCall
    /\ calls = 0

\* An invocation's local state, before the handler has set any of it.
Idle ==
    [kind |-> "idle", pc |-> "idle", event |-> "", messageId |-> "", user |-> "",
     emoji |-> "", key |-> "",
     stored |-> {}, didRevert |-> FALSE, botMessage |-> "", canReact |-> FALSE,
     tracked |-> FALSE, recorded |-> FALSE, won |-> FALSE, triedDelete |-> FALSE,
     triedRemove |-> FALSE, fault |-> FALSE, canManage |-> FALSE, fetched |-> FALSE,
     embeds |-> << >>]

InitPlatform ==
    /\ content = << >>
    /\ suppressed = {}
    /\ handlers = EmptyBag
    /\ done = Idle
    /\ events = 0
    /\ posted = {}
    /\ botReaction = {}
    /\ sent = 0
    /\ deletes = [b \in BotMsgIds |-> 0]

Init == InitLedger /\ InitPlatform /\ variant = 0

\* The clock advances.
Tick ==
    /\ now < MaxTime
    /\ now' = now + 1
    /\ UNCHANGED <<messages, reactions, seq, foreignKeys, last, calls>>
    /\ UNCHANGED botVars

\* message.author.id: a Discord message has one author, whoever delivers it.
authorOf(messageId) == IF messageId = "m1" THEN "u1" ELSE "u2"

Channels == {"c1", "c2"}

\* message.channel.id: a Discord message is in one channel.
channelOf(messageId) == IF messageId = "m1" THEN "c1" ELSE "c2"

MessageInputs(T) ==
    {[messageId |-> id, channelId |-> channelOf(id), authorId |-> authorOf(id),
      originalContent |-> c,
      originalLinks |-> linkFields(c).originalLinks,
      convertedLinks |-> linkFields(c).convertedLinks,
      botMessageId |-> b, createdAt |-> t] :
        id \in MsgIds, c \in Contents, b \in BotMsgIds, t \in T}

StoreMessageCall ==
    \E message \in MessageInputs({now}) :
        /\ messages' = storeMessage(messages, message)
        /\ Called("storeMessage", message.messageId, message, FALSE, FALSE, 0)
        /\ UNCHANGED <<reactions, seq, foreignKeys, now>>

MarkAsRevertedCall ==
    \E id \in MsgIds :
        /\ messages' = markAsRevertedRows(messages, id)
        /\ Called("markAsReverted", id, << >>, FALSE, markAsReverted(messages, id), 0)
        /\ UNCHANGED <<reactions, seq, foreignKeys, now>>

\* The callers of the repository name the reactor field odId (one bot.ts) or
\* userId (the other bot.ts, the test suites).
ReactionInputs(T) ==
    {[messageId |-> id, odId |-> u, reactedAt |-> t, isRevertReaction |-> r] :
        id \in MsgIds, u \in Users, t \in T, r \in BOOLEAN}
    \cup
    {[messageId |-> id, userId |-> u, reactedAt |-> t, isRevertReaction |-> r] :
        id \in MsgIds, u \in Users, t \in T, r \in BOOLEAN}

StoreReactionCall ==
    \E reaction \in ReactionInputs({now}) :
        IF storeReactionThrows(messages, foreignKeys, reaction)
        THEN /\ Called("storeReaction", reaction.messageId, reaction, TRUE, FALSE, 0)
             /\ UNCHANGED <<messages, reactions, seq, foreignKeys, now>>
        ELSE /\ reactions' = storeReaction(reactions, seq, reaction)
             /\ seq' = seq + 1
             /\ Called("storeReaction", reaction.messageId, reaction, FALSE, FALSE,
                       storeReaction(reactions, seq, reaction)[Len(reactions) + 1].id)
             /\ UNCHANGED <<messages, foreignKeys, now>>

DeleteMessageCall ==
    \E id \in MsgIds :
        IF deleteMessageThrows(messages, reactions, foreignKeys, id)
        THEN /\ Called("deleteMessage", id, << >>, TRUE, FALSE, 0)
             /\ UNCHANGED <<messages, reactions, seq, foreignKeys, now>>
        ELSE /\ messages' = deleteMessageRows(messages, id)
             /\ Called("deleteMessage", id, << >>, FALSE, deleteMessage(messages, id), 0)
             /\ UNCHANGED <<reactions, seq, foreignKeys, now>>

\* cutoffTime = Date.now() - daysOld * 24 * 60 * 60 * 1000, daysOld >= 0.
CleanupOldMessagesCall ==
    \E cutoffTime \in 0..now :
        /\ reactions' = cleanupReactions(messages, reactions, cutoffTime)
        /\ messages' = cleanupMessages(messages, cutoffTime)
        /\ Called("cleanupOldMessages", "", cutoffTime, FALSE, FALSE,
                  cleanupOldMessages(messages, cutoffTime))
        /\ UNCHANGED <<seq, foreignKeys, now>>

GetStatsCall ==
    /\ Called("getStats", "", getStats(messages, reactions), FALSE, FALSE, 0)
    /\ UNCHANGED <<messages, reactions, seq, foreignKeys, now>>

Next ==
    \/ Tick
    \/ StoreMessageCall
    \/ MarkAsRevertedCall
    \/ StoreReactionCall
    \/ DeleteMessageCall
    \/ CleanupOldMessagesCall
    \/ GetStatsCall

Spec == Init /\ [][Next]_vars

(***************************************************************************)
(* bot.ts: the event handlers. Code between two awaits runs without         *)
(* interruption; every await is a step of its own, taken when the awaited   *)
(* platform call settles.                                                   *)
(***************************************************************************)
ROBOT_EMOJI == "robot"

Emojis == {ROBOT_EMOJI, "other"}

\* The bot's own user (user.bot).
BotUser == "bot"

\* channel.send gives every replacement message an id of its own.
BotIdSeq == <<"b1", "b2">>

\* message.content
contentOf(messageId) ==
    IF messageId = "m1"
    THEN <<"https://", "reddit.com", "/r/", "one", " ",
           "http://", "old.", "reddit.com", "/r/", "one", " ",
           "https://", "reddit.com", "/r/", "one">>
    ELSE <<"HTTPS://", "new.", "REDDIT.COM", "/r/", "Two", "/">>

\* An event is delivered and starts an invocation.
Deliver ==
    /\ BagCardinality(handlers) < MaxHandlers
    /\ events < MaxEvents
    /\ events' = events + 1

\* The invocations in flight without the one that takes the step (old = Idle: the
\* invocation starts with this step).
Others(old) ==
    IF old.kind = "idle" THEN handlers ELSE handlers (-) SetToBag({old})

\* The invocation ends: it "returned", or an exception left it ("threw").
Finish(old, h, end) ==
    /\ handlers' = Others(old)
    /\ done' = [h EXCEPT !.pc = end]

\* The invocation goes on to its next await.
Await(old, h, pc) ==
    /\ handlers' = Others(old) (+) SetToBag({[h EXCEPT !.pc = pc]})
    /\ done' = done

\* What a message-created event is: a human's message with a Reddit link in a
\* guild text channel where the bot may send and react ("ok") or may not react
\* ("noreact"), or an event one of the handler's checks turns away.
MessageKinds == {"ok", "noreact", "bot", "empty", "nolinks", "dm", "nochannel", "nosend"}

\* Mutant: a direct message is handled like a guild message.
qualifies_DirectMessage(k) == k \in {"ok", "noreact", "dm"}

\* Mutant: the SendMessages permission is not checked.
qualifies_NoPermissionCheck(k) == k \in {"ok", "noreact", "nosend"}

\* The handler's checks before the post: author not a bot and content not empty
\* (line 73), a link found (78), a guild (87), a guild text channel (93), the bot
\* user known (99), the bot a member with SendMessages (106-110).
qualifies(k) == k \in {"ok", "noreact"}

\* Mutant: the record names a message id that channel.send did not return.
StoredMessageOf_Unposted(h, b) ==
    [messageId |-> h.messageId, channelId |-> channelOf(h.messageId),
     authorId |-> authorOf(h.messageId),
     originalContent |-> contentOf(h.messageId),
     originalLinks |-> linkFields(contentOf(h.messageId)).originalLinks,
     convertedLinks |-> linkFields(contentOf(h.messageId)).convertedLinks,
     botMessageId |-> BotIdSeq[Len(BotIdSeq)], createdAt |-> now]

\* The object literal the handler passes to db.storeMessage.
StoredMessageOf(h, b) ==
    [messageId |-> h.messageId, channelId |-> channelOf(h.messageId),
     authorId |-> authorOf(h.messageId),
     originalContent |-> contentOf(h.messageId),
     originalLinks |-> linkFields(contentOf(h.messageId)).originalLinks,
     convertedLinks |-> linkFields(contentOf(h.messageId)).convertedLinks,
     botMessageId |-> b,
     createdAt |-> now]

\* client.on(Events.MessageCreate), up to await message.channel.send.
MessageCreateOn(ids, kinds) ==
    \E m \in ids, k \in kinds :
        LET h == [Idle EXCEPT !.kind = "message", !.event = k, !.messageId = m,
                              !.user = authorOf(m), !.canReact = (k = "ok")]
        IN  /\ Deliver
            /\ IF qualifies(k)
               THEN Await(Idle, h, "send")
               ELSE Finish(Idle, h, "returned")
            /\ UNCHANGED <<messages, reactions, seq, foreignKeys, now, last, calls,
                           variant, content, suppressed, posted, botReaction, sent, deletes>>

\* A message-created event for any of the messages, of any kind.
MessageCreate == MessageCreateOn(MsgIds, MessageKinds)

\* Mutant: the catch block starts the handler's try block over.
Abandon_Retry(old, h) == Await(old, [h EXCEPT !.fault = TRUE], "send")

\* catch (error) { console.error(...) } of the message-created handler: the
\* failure is logged and the invocation ends.
Abandon(old, h) == Finish(old, [h EXCEPT !.fault = TRUE], "returned")

\* await message.channel.send settles; db.storeMessage; up to await message.react.
\* A rejected send and a storeMessage that throws are caught by the handler's try.
Send(h) ==
    /\ h.pc = "send"
    /\ \/ /\ Abandon(h, h)
          /\ UNCHANGED <<messages, posted, sent>>
       \/ /\ sent < Len(BotIdSeq)
          /\ LET b == BotIdSeq[sent + 1]
                 h1 == [h EXCEPT !.botMessage = b]
             IN  /\ sent' = sent + 1
                 /\ posted' = posted \cup {b}
                 /\ \/ /\ Abandon(h, h1)
                       /\ messages' = messages
                    \/ /\ messages' = storeMessage(messages, StoredMessageOf(h, b))
                       /\ IF h.canReact
                          THEN Await(h, h1, "react")
                          ELSE Finish(h, h1, "returned")
    /\ UNCHANGED <<reactions, seq, foreignKeys, now, last, calls, variant, content, suppressed, events,
                   botReaction, deletes>>

\* await message.react(ROBOT_EMOJI) settles.
React(h) ==
    /\ h.pc = "react"
    /\ \/ /\ Finish(h, h, "returned")
          /\ botReaction' = botReaction \cup {h.messageId}
       \/ /\ Abandon(h, h)
          /\ botReaction' = botReaction
    /\ UNCHANGED <<messages, reactions, seq, foreignKeys, now, last, calls,
                   variant, content, suppressed, events, posted, sent, deletes>>

\* Mutant: every reactor counts as the author.
isAuthorReaction_Anyone(user, storedMessage) == TRUE

\* user.id === storedMessage.authorId
isAuthorReaction(user, storedMessage) == user = storedMessage.authorId

\* Mutant: every stored reaction is flagged as a revert reaction.
ReactionOf_AlwaysRevert(h, storedMessage) ==
    IF variant = 1
    THEN [messageId |-> h.messageId, userId |-> h.user, reactedAt |-> now,
          isRevertReaction |-> TRUE]
    ELSE [messageId |-> h.messageId, odId |-> h.user, reactedAt |-> now,
          isRevertReaction |-> TRUE]

\* Mutant: the third bot.ts passes the id of the message that was reacted to.
ReactionOf_ReactedMessage(h, storedMessage) ==
    IF variant = 2
    THEN [messageId |-> h.messageId, odId |-> h.user, reactedAt |-> now,
          isRevertReaction |-> isAuthorReaction(h.user, storedMessage)]
    ELSE [messageId |-> h.messageId, userId |-> h.user, reactedAt |-> now,
          isRevertReaction |-> isAuthorReaction(h.user, storedMessage)]

\* The object literal the handler passes to db.storeReaction: the reactor goes in
\* userId in the first bot.ts (line 177) and in odId in the second (line 414); the
\* third bot.ts (line 745) passes storedMessage.messageId, and the reactor in
\* userId.
ReactionOf(h, storedMessage) ==
    IF variant = 1
    THEN [messageId |-> h.messageId, userId |-> h.user, reactedAt |-> now,
          isRevertReaction |-> isAuthorReaction(h.user, storedMessage)]
    ELSE IF variant = 3
    THEN [messageId |-> storedMessage.messageId, userId |-> h.user, reactedAt |-> now,
          isRevertReaction |-> isAuthorReaction(h.user, storedMessage)]
    ELSE [messageId |-> h.messageId, odId |-> h.user, reactedAt |-> now,
          isRevertReaction |-> isAuthorReaction(h.user, storedMessage)]

\* The reaction handler after db.storeReaction: the author check, and in the
\* first bot.ts db.markAsReverted and the check of its result (lines 184-202); in
\* the second bot.ts the author check alone (lines 421-431). The third bot.ts does
\* as the first with storedMessage.messageId (lines 752-764) and goes on to await
\* reaction.message.delete().
AfterStoreReaction(old, h, row) ==
    IF ~isAuthorReaction(h.user, row)
    THEN Finish(old, h, "returned") /\ messages' = messages
    ELSE IF variant = 2
    THEN Await(old, [h EXCEPT !.won = TRUE], "fetchChannel") /\ messages' = messages
    ELSE \/ /\ Finish(old, [h EXCEPT !.fault = TRUE], "threw")
            /\ messages' = messages
         \/ /\ messages' = markAsRevertedRows(messages, h.key)
            /\ IF markAsReverted(messages, h.key)
               THEN Await(old, [h EXCEPT !.didRevert = TRUE, !.won = TRUE],
                          IF variant = 3 THEN "deleteReacted" ELSE "fetchChannel")
               ELSE Finish(old, h, "returned")

\* The reaction handler from the record found to db.storeReaction: lines 173-182
\* of the first bot.ts; lines 405-419 of the second, which returns first when the
\* record it read is reverted.
\* h.key keeps the message id the handler passes to the ledger from here on.
AfterGetMessage(old, h, row) ==
    LET h1 == [h EXCEPT !.key = ReactionOf(h, row).messageId]
    IN  IF variant = 2 /\ row.isReverted
        THEN Finish(old, h, "returned") /\ UNCHANGED <<messages, reactions, seq>>
        ELSE \/ /\ Finish(old, [h1 EXCEPT !.fault = TRUE], "threw")
                /\ UNCHANGED <<messages, reactions, seq>>
             \/ /\ storeReactionThrows(messages, foreignKeys, ReactionOf(h, row))
                /\ Finish(old, h1, "threw")
                /\ UNCHANGED <<messages, reactions, seq>>
             \/ /\ ~storeReactionThrows(messages, foreignKeys, ReactionOf(h, row))
                /\ reactions' = storeReaction(reactions, seq, ReactionOf(h, row))
                /\ seq' = seq + 1
                /\ AfterStoreReaction(old, [h1 EXCEPT !.recorded = TRUE], row)

\* The reaction handler from the emoji check to its first await: lines 165-202 of
\* the first bot.ts, lines 397-431 of the second. No call in this stretch is
\* inside a try: when the storage fails under a ledger call, or the call throws,
\* the exception ends the invocation. The third bot.ts (lines 733-741) looks the
\* record up by the id of the bot's message, which is the one reacted to there.
ReactionBody(old, h) ==
    LET stored == IF variant = 3
                  THEN getMessageByBotMessageId(messages, h.messageId)
                  ELSE getMessage(messages, h.messageId)
    IN  IF h.emoji # ROBOT_EMOJI
        THEN Finish(old, h, "returned") /\ UNCHANGED <<messages, reactions, seq>>
        ELSE \/ /\ Finish(old, [h EXCEPT !.fault = TRUE], "threw")
                /\ UNCHANGED <<messages, reactions, seq>>
             \/ /\ stored = {}
                /\ Finish(old, h, "returned")
                /\ UNCHANGED <<messages, reactions, seq>>
             \/ \E row \in stored :
                    AfterGetMessage(old, [h EXCEPT !.stored = stored, !.tracked = TRUE],
                                    row)

\* Mutant: reactions of bots are handled like anybody's.
ignoresUser_Nobody(u) == FALSE

\* if (user.bot) return
ignoresUser(u) == u = BotUser

\* client.on(Events.MessageReactionAdd), up to await reaction.fetch() for a
\* partial reaction, else through ReactionBody; the reaction is on one of ids.
ReactionAddOn(ids) ==
    \E m \in ids, u \in Users \cup {BotUser}, e \in Emojis, partial \in BOOLEAN :
        LET h == [Idle EXCEPT !.kind = "reaction", !.messageId = m, !.user = u,
                              !.emoji = e]
        IN  /\ Deliver
            /\ IF ignoresUser(u)
               THEN Finish(Idle, h, "returned") /\ UNCHANGED <<messages, reactions, seq>>
               ELSE IF partial
               THEN Await(Idle, h, "fetchReaction")
                    /\ UNCHANGED <<messages, reactions, seq>>
               ELSE ReactionBody(Idle, h)
            /\ UNCHANGED <<foreignKeys, now, last, calls, variant, content, suppressed, posted, botReaction,
                           sent, deletes>>

\* A reaction on a user's message.
ReactionAdd == ReactionAddOn(MsgIds)

\* A reaction on a user's message or on one of the bot's replacement messages.
ReactionAddAnySurface == ReactionAddOn({MsgIds_First, BotIdSeq[1]})

\* await reaction.fetch() settles: rejected, the handler logs and returns.
FetchReaction(h) ==
    /\ h.pc = "fetchReaction"
    /\ \/ /\ Finish(h, [h EXCEPT !.fault = TRUE], "returned")
          /\ UNCHANGED <<messages, reactions, seq>>
       \/ ReactionBody(h, h)
    /\ UNCHANGED <<foreignKeys, now, last, calls, variant, content, suppressed, events, posted,
                   botReaction, sent, deletes>>

\* await client.channels.fetch settles, inside the outer try: rejected, the outer
\* catch ends the handler; a text channel leads to messages.fetch; any other
\* channel skips the deletion.
FetchChannel(h) ==
    /\ h.pc = "fetchChannel"
    /\ \/ Finish(h, [h EXCEPT !.fault = TRUE], "returned")
       \/ Await(h, h, "fetchBotMessage")
       \/ Await(h, h, "removeReaction")
    /\ UNCHANGED <<messages, reactions, seq, foreignKeys, now, last, calls,
                   variant, content, suppressed, events, posted, botReaction, sent, deletes>>

\* await channel.messages.fetch(storedMessage.botMessageId) settles, inside the
\* inner try: rejected (the message is gone, or the call failed), the inner catch
\* leads on to the reaction removal.
FetchBotMessage(h) ==
    LET row == CHOOSE r \in h.stored : TRUE
    IN  /\ h.pc = "fetchBotMessage"
        /\ \/ /\ row.botMessageId \in posted
              /\ Await(h, h, "delete")
           \/ Await(h, [h EXCEPT !.fault = TRUE], "removeReaction")
        /\ UNCHANGED <<messages, reactions, seq, foreignKeys, now, last, calls,
                       variant, content, suppressed, events, posted, botReaction, sent, deletes>>

\* await botMessage.delete() settles, inside the inner try.
DeleteBotMessage(h) ==
    LET row == CHOOSE r \in h.stored : TRUE
        h1 == [h EXCEPT !.triedDelete = TRUE]
    IN  /\ h.pc = "delete"
        /\ deletes' = [deletes EXCEPT ![row.botMessageId] = @ + 1]
        /\ \/ /\ row.botMessageId \in posted
              /\ posted' = posted \ {row.botMessageId}
              /\ Await(h, h1, "removeReaction")
           \/ /\ posted' = posted
              /\ Await(h, [h1 EXCEPT !.fault = TRUE], "removeReaction")
        /\ UNCHANGED <<messages, reactions, seq, foreignKeys, now, last, calls,
                       variant, content, suppressed, events, botReaction, sent>>

\* await reaction.users.remove(botUser) settles, inside the outer try. The second
\* bot.ts calls db.markAsReverted after it, still inside the try, and ignores the
\* result.
RemoveReaction(h) ==
    LET h1 == [h EXCEPT !.triedRemove = TRUE]
    IN  /\ h.pc = "removeReaction"
        /\ \/ /\ Finish(h, [h1 EXCEPT !.fault = TRUE], "returned")
              /\ UNCHANGED <<messages, botReaction>>
           \/ /\ botReaction' = botReaction \ {h.messageId}
              /\ IF variant = 2
                 THEN \/ /\ messages' = markAsRevertedRows(messages, h.messageId)
                         /\ Finish(h, [h1 EXCEPT !.didRevert =
                                           markAsReverted(messages, h.messageId)],
                                   "returned")
                      \/ /\ messages' = messages
                         /\ Finish(h, [h1 EXCEPT !.fault = TRUE], "returned")
                 ELSE /\ messages' = messages
                      /\ Finish(h, h1, "returned")
        /\ UNCHANGED <<reactions, seq, foreignKeys, now, last, calls, variant, content, suppressed, events,
                       posted, sent, deletes>>

\* The clock of the bot counts in steps longer than MESSAGE_RETENTION_DAYS, so
\* Date.now() - 30 days lies after every earlier instant of the clock and before
\* the present one: created_at < cutoffTime holds of the records of earlier
\* instants and of no other.
runCleanupCutoff == now

\* runCleanup, called on ClientReady and by setInterval: db.cleanupOldMessages(
\* MESSAGE_RETENTION_DAYS). A timer callback runs between the handlers' steps.
runCleanup ==
    /\ reactions' = cleanupReactions(messages, reactions, runCleanupCutoff)
    /\ messages' = cleanupMessages(messages, runCleanupCutoff)
    /\ UNCHANGED <<seq, foreignKeys, now, last, calls>>
    /\ UNCHANGED botVars

InitBot == InitLedger /\ InitPlatform /\ variant \in {1, 2}

NextBot ==
    \/ MessageCreate
    \/ ReactionAdd
    \/ \E h \in BagToSet(handlers) :
        \/ Send(h)
        \/ React(h)
        \/ FetchReaction(h)
        \/ FetchChannel(h)
        \/ FetchBotMessage(h)
        \/ DeleteBotMessage(h)
        \/ RemoveReaction(h)

SpecBot == InitBot /\ [][NextBot]_vars

\* The handlers with the clock running and the retention sweep between their
\* steps.
NextSweep ==
    \/ Tick
    \/ runCleanup
    \/ NextBot

SpecSweep == InitBot /\ [][NextSweep]_vars

(***************************************************************************)
(* The reaction handlers of the three bot.ts, for reactions on either      *)
(* surface, after the conversions of Converted have run to their end: each *)
(* has its record, its replacement message in the channel and the bot's    *)
(* reaction on the original.                                               *)
(***************************************************************************)
Converted == {<<"m1">>, <<"m1", "m2">>, <<"m2", "m1">>}

RECURSIVE storeMessages(_, _)
storeMessages(ms, n) ==
    IF n = 0
    THEN << >>
    ELSE storeMessage(storeMessages(ms, n - 1),
                      [messageId |-> ms[n], channelId |-> channelOf(ms[n]),
                       authorId |-> authorOf(ms[n]),
                       originalContent |-> contentOf(ms[n]),
                       originalLinks |-> linkFields(contentOf(ms[n])).originalLinks,
                       convertedLinks |-> linkFields(contentOf(ms[n])).convertedLinks,
                       botMessageId |-> BotIdSeq[n], createdAt |-> 0])

InitSurface ==
    \E ms \in Converted :
        /\ messages = storeMessages(ms, Len(ms))
        /\ reactions = << >>
        /\ seq = 0
        /\ foreignKeys \in BOOLEAN
        /\ now = 0
        /\ last = NoCall
        /\ calls = 0
        /\ variant \in {1, 2, 3}
        /\ content = << >>
        /\ suppressed = {}
        /\ handlers = EmptyBag
        /\ done = Idle
        /\ events = 0
        /\ posted = {BotIdSeq[i] : i \in 1..Len(ms)}
        /\ botReaction = {ms[i] : i \in 1..Len(ms)}
        /\ sent = Len(ms)
        /\ deletes = [b \in BotMsgIds |-> 0]

NextSurface ==
    \/ ReactionAddAnySurface
    \/ \E h \in BagToSet(handlers) :
        \/ FetchReaction(h)
        \/ FetchChannel(h)
        \/ FetchBotMessage(h)
        \/ DeleteBotMessage(h)
        \/ RemoveReaction(h)

SpecSurface == InitSurface /\ [][NextSurface]_vars

(***************************************************************************)
(* The third bot.ts (lines 487-828), which suppresses the embeds of the    *)
(* original message, puts the robot reaction on its own message, and       *)
(* reverts by itself when the replacement shows no video or gallery.       *)
(***************************************************************************)
\* The embeds a fetched message can carry: embed.video, embed.data.type and
\* embed.provider?.name, as hasVideoOrGallery reads them.
ProviderNames == {"none", "rxddit", "Rxddit", "Reddit"}

Embeds == [video : BOOLEAN, type : {"video", "rich", "link"}, provider : ProviderNames]

\* String.prototype.toLowerCase on the provider names.
toLowerCase(name) ==
    CASE name = "Rxddit" -> "rxddit"
      [] name = "Reddit" -> "reddit"
      [] OTHER -> name

\* embed.provider?.name?.toLowerCase().includes('rxddit')
providerIsRxddit(embed) ==
    /\ embed.provider # "none"
    /\ toLowerCase(embed.provider) = "rxddit"

\* Mutant: the rich embeds of rxddit do not count.
hasVideoOrGallery_VideoOnly(embeds) ==
    \E i \in 1..Len(embeds) :
        \/ embeds[i].video
        \/ embeds[i].type = "video"

\* hasVideoOrGallery: embeds.some(...) with the three checks of lines 551-563.
hasVideoOrGallery(embeds) ==
    \E i \in 1..Len(embeds) :
        \/ embeds[i].video
        \/ embeds[i].type = "video"
        \/ embeds[i].type = "rich" /\ providerIsRxddit(embeds[i])

\* The embed lists the platform answers the fetch with.
EmbedLists ==
    {<< >>,
     <<[video |-> FALSE, type |-> "link", provider |-> "none"]>>,
     <<[video |-> FALSE, type |-> "rich", provider |-> "Reddit"]>>,
     <<[video |-> FALSE, type |-> "rich", provider |-> "Rxddit"]>>,
     <<[video |-> FALSE, type |-> "video", provider |-> "none"]>>,
     <<[video |-> FALSE, type |-> "link", provider |-> "Reddit"],
       [video |-> TRUE, type |-> "link", provider |-> "rxddit"]>>}

\* The handler after its permission checks for the original's embeds and for the
\* reaction (lines 650-661), on to the next await.
AfterStoreMessage(old, h) ==
    IF h.canManage
    THEN Await(old, h, "suppressEmbeds")
    ELSE IF h.canReact
    THEN Await(old, h, "reactBot")
    ELSE Await(old, h, "embedWait")

\* await message.channel.send settles; db.storeMessage; the ManageMessages check,
\* up to await message.suppressEmbeds(true) (lines 630-651). A rejected send and
\* a storeMessage that throws are caught by the handler's outer try.
SendEmbed(h) ==
    /\ h.pc = "send"
    /\ \/ /\ Abandon(h, h)
          /\ UNCHANGED <<messages, posted, sent>>
       \/ /\ sent < Len(BotIdSeq)
          /\ \E manage \in BOOLEAN :
                LET b == BotIdSeq[sent + 1]
                    h1 == [h EXCEPT !.botMessage = b, !.canManage = manage]
                IN  /\ sent' = sent + 1
                    /\ posted' = posted \cup {b}
                    /\ \/ /\ Abandon(h, [h EXCEPT !.botMessage = b])
                          /\ messages' = messages
                       \/ /\ messages' = storeMessage(messages, StoredMessageOf(h, b))
                          /\ AfterStoreMessage(h, h1)
    /\ UNCHANGED <<reactions, seq, foreignKeys, now, last, calls, variant, content,
                   suppressed, events, botReaction, deletes>>

\* await message.suppressEmbeds(true) settles (line 651); rejected, the outer
\* catch ends the handler.
SuppressEmbeds(h) ==
    /\ h.pc = "suppressEmbeds"
    /\ \/ /\ suppressed' = suppressed \cup {h.messageId}
          /\ IF h.canReact
             THEN Await(h, h, "reactBot")
             ELSE Await(h, h, "embedWait")
       \/ /\ suppressed' = suppressed
          /\ Abandon(h, h)
    /\ UNCHANGED <<messages, reactions, seq, foreignKeys, now, last, calls, variant,
                   content, events, posted, botReaction, sent, deletes>>

\* await botMessage.react(ROBOT_EMOJI) settles (line 660); rejected, the outer
\* catch ends the handler.
ReactBot(h) ==
    /\ h.pc = "reactBot"
    /\ \/ /\ botReaction' = botReaction \cup {h.botMessage}
          /\ Await(h, h, "embedWait")
       \/ /\ botReaction' = botReaction
          /\ Abandon(h, h)
    /\ UNCHANGED <<messages, reactions, seq, foreignKeys, now, last, calls, variant,
                   content, suppressed, events, posted, sent, deletes>>

\* await new Promise(resolve => setTimeout(resolve, EMBED_WAIT_MS)) settles
\* (line 665).
EmbedWait(h) ==
    /\ h.pc = "embedWait"
    /\ Await(h, h, "fetchUpdated")
    /\ UNCHANGED <<messages, reactions, seq, foreignKeys, now, last, calls, variant,
                   content, suppressed, events, posted, botReaction, sent, deletes>>

\* await message.channel.messages.fetch(botMessage.id) settles, inside the inner
\* try (lines 667-707): rejected (the message is gone, or the call failed), the
\* inner catch keeps the replacement; else hasVideoOrGallery on its embeds, and
\* without video or gallery db.markAsReverted(message.id), whose exception the
\* inner catch takes as well. h.key keeps the id passed to db.markAsReverted.
FetchUpdated(h) ==
    /\ h.pc = "fetchUpdated"
    /\ \/ /\ Finish(h, [h EXCEPT !.fault = TRUE], "returned")
          /\ messages' = messages
       \/ /\ h.botMessage \in posted
          /\ \E embeds \in EmbedLists :
                LET h1 == [h EXCEPT !.fetched = TRUE, !.embeds = embeds]
                    h2 == [h1 EXCEPT !.key = h.messageId]
                IN  IF hasVideoOrGallery(embeds)
                    THEN Finish(h, h1, "returned") /\ messages' = messages
                    ELSE \/ /\ Finish(h, [h2 EXCEPT !.fault = TRUE], "returned")
                            /\ messages' = messages
                         \/ /\ messages' = markAsRevertedRows(messages, h.messageId)
                            /\ IF markAsReverted(messages, h.messageId)
                               THEN Await(h, [h2 EXCEPT !.didRevert = TRUE,
                                                        !.won = TRUE],
                                          "deleteUpdated")
                               ELSE Finish(h, h2, "returned")
    /\ UNCHANGED <<reactions, seq, foreignKeys, now, last, calls, variant, content,
                   suppressed, events, posted, botReaction, sent, deletes>>

\* await updatedBotMessage.delete() settles, in a try of its own (lines 682-687);
\* then the ManageMessages check (line 690).
DeleteUpdated(h) ==
    LET h1 == [h EXCEPT !.triedDelete = TRUE]
    IN  /\ h.pc = "deleteUpdated"
        /\ deletes' = [deletes EXCEPT ![h.botMessage] = @ + 1]
        /\ \E ok \in BOOLEAN :
            LET h2 == [h1 EXCEPT !.fault = ~ok]
            IN  /\ ok => h.botMessage \in posted
                /\ posted' = IF ok THEN posted \ {h.botMessage} ELSE posted
                /\ IF h.canManage
                   THEN Await(h, h2, "unsuppressEmbeds")
                   ELSE Finish(h, h2, "returned")
        /\ UNCHANGED <<messages, reactions, seq, foreignKeys, now, last, calls, variant,
                       content, suppressed, events, botReaction, sent>>

\* await message.suppressEmbeds(false) settles, in a try of its own (lines
\* 691-696).
UnsuppressEmbeds(h) ==
    /\ h.pc = "unsuppressEmbeds"
    /\ \/ /\ suppressed' = suppressed \ {h.messageId}
          /\ Finish(h, [h EXCEPT !.triedRemove = TRUE], "returned")
       \/ /\ suppressed' = suppressed
          /\ Finish(h, [h EXCEPT !.triedRemove = TRUE, !.fault = TRUE], "returned")
    /\ UNCHANGED <<messages, reactions, seq, foreignKeys, now, last, calls, variant,
                   content, events, posted, botReaction, sent, deletes>>

\* A robot or other reaction on the first replacement message.
ReactionAddOnReplacement == ReactionAddOn({BotIdSeq[1]})

\* A message-created event for the first message that the handler's checks let
\* through.
MessageCreateLinked == MessageCreateOn({MsgIds_First}, {"ok", "noreact"})

\* The third bot.ts on an empty ledger. Its db.storeReaction call throws for the
\* missing odId whatever the foreign-key setting is, so one setting is taken.
InitEmbed ==
    /\ messages = << >>
    /\ reactions = << >>
    /\ seq = 0
    /\ foreignKeys = FALSE
    /\ now = 0
    /\ last = NoCall
    /\ calls = 0
    /\ InitPlatform
    /\ variant = 3

NextEmbed ==
    \/ MessageCreateLinked
    \/ ReactionAddOnReplacement
    \/ \E h \in BagToSet(handlers) :
        \/ SendEmbed(h)
        \/ SuppressEmbeds(h)
        \/ ReactBot(h)
        \/ EmbedWait(h)
        \/ FetchUpdated(h)
        \/ DeleteUpdated(h)
        \/ UnsuppressEmbeds(h)
        \/ FetchReaction(h)

SpecEmbed == InitEmbed /\ [][NextEmbed]_vars

(***************************************************************************)
(* The ledger's queries and the purge, on any tables: the rows that        *)
(* storeMessage, markAsReverted and storeReaction calls can have left,     *)
(* with the timestamps (createdAt, reactedAt) as the callers chose them.   *)
(***************************************************************************)
MessageTables ==
    UNION {{[m \in S |-> [channelId       |-> channelOf(m),
                          authorId        |-> authorOf(m),
                          originalContent |-> contentOf(m),
                          originalLinks |-> linkFields(contentOf(m)).originalLinks,
                          convertedLinks |-> linkFields(contentOf(m)).convertedLinks,
                          botMessageId    |-> BotIdSeq[1],
                          createdAt       |-> c[m],
                          isReverted      |-> r[m]]] :
                c \in [S -> Times], r \in [S -> BOOLEAN]} : S \in SUBSET MsgIds}

ReactionTables ==
    UNION {{[i \in 1..n |-> storeReactionRow(i - 1,
                [messageId |-> ms[i], odId |-> authorOf(MsgIds_First),
                 reactedAt |-> ts[i],
                 isRevertReaction |-> (authorOf(ms[i]) = authorOf(MsgIds_First))])] :
                ms \in [1..n -> MsgIds], ts \in [1..n -> Times]} : n \in 0..MaxRows}

InitTables ==
    /\ messages \in MessageTables
    /\ reactions \in ReactionTables
    /\ seq = Len(reactions)
    /\ foreignKeys \in BOOLEAN
    /\ foreignKeys => \A i \in 1..Len(reactions) : reactions[i].messageId \in DOMAIN messages
    /\ now = MaxTime
    /\ last = NoCall
    /\ calls = 0
    /\ InitPlatform
    /\ variant = 0

GetReactionsCall ==
    \E id \in MsgIds :
        \E result \in getReactions(reactions, id) :
            /\ Called("getReactions", id, result, FALSE, FALSE, 0)
            /\ UNCHANGED <<messages, reactions, seq, foreignKeys, now>>

NextTables ==
    \/ CleanupOldMessagesCall
    \/ GetReactionsCall
    \/ GetStatsCall

SpecTables == InitTables /\ [][NextTables]_vars

(***************************************************************************)
(* The ledger's listings, on any messages table: the callers of the ledger *)
(* choose author, channel and createdAt of every record they store.        *)
(***************************************************************************)
ListingTables ==
    UNION {{[m \in S |-> [channelId       |-> ch[m],
                          authorId        |-> au[m],
                          originalContent |-> contentOf(m),
                          originalLinks |-> linkFields(contentOf(m)).originalLinks,
                          convertedLinks |-> linkFields(contentOf(m)).convertedLinks,
                          botMessageId    |-> BotIdSeq[1],
                          createdAt       |-> c[m],
                          isReverted      |-> FALSE]] :
                ch \in [S -> Channels], au \in [S -> Users], c \in [S -> Times]} :
           S \in SUBSET MsgIds}

InitListing ==
    /\ messages \in ListingTables
    /\ reactions = << >>
    /\ seq = 0
    /\ foreignKeys \in BOOLEAN
    /\ now = MaxTime
    /\ last = NoCall
    /\ calls = 0
    /\ InitPlatform
    /\ variant = 0

GetMessagesByAuthorCall ==
    \E authorId \in Users, limit \in 0..MaxLimit :
        \E result \in getMessagesByAuthor(messages, authorId, limit) :
            /\ Called("getMessagesByAuthor", "",
                      [key |-> authorId, limit |-> limit, result |-> result],
                      FALSE, FALSE, 0)
            /\ UNCHANGED <<messages, reactions, seq, foreignKeys, now>>

GetMessagesByChannelCall ==
    \E channelId \in Channels, limit \in 0..MaxLimit :
        \E result \in getMessagesByChannel(messages, channelId, limit) :
            /\ Called("getMessagesByChannel", "",
                      [key |-> channelId, limit |-> limit, result |-> result],
                      FALSE, FALSE, 0)
            /\ UNCHANGED <<messages, reactions, seq, foreignKeys, now>>

NextListing ==
    \/ GetMessagesByAuthorCall
    \/ GetMessagesByChannelCall

SpecListing == InitListing /\ [][NextListing]_vars

(***************************************************************************)
(* The ledger driven call by call on a database file that already holds a  *)
(* record and a reaction on it.                                            *)
(***************************************************************************)
InitLog ==
    LET message == [messageId |-> MsgIds_First, channelId |-> channelOf(MsgIds_First),
                    authorId |-> authorOf(MsgIds_First),
                    originalContent |-> contentOf(MsgIds_First),
                    originalLinks |-> linkFields(contentOf(MsgIds_First)).originalLinks,
                    convertedLinks |-> linkFields(contentOf(MsgIds_First)).convertedLinks,
                    botMessageId |-> BotIdSeq[1], createdAt |-> 0]
        reaction == [messageId |-> MsgIds_First, odId |-> authorOf(MsgIds_First),
                     reactedAt |-> 0, isRevertReaction |-> TRUE]
    IN  /\ messages = storeMessage(<< >>, message)
        /\ reactions = storeReaction(<< >>, 0, reaction)
        /\ seq = 1
        /\ foreignKeys \in BOOLEAN
        /\ now = 0
        /\ last = NoCall
        /\ calls = 0
        /\ InitPlatform
        /\ variant = 0

SpecLog == InitLog /\ [][Next]_vars

(***************************************************************************)
(* The texts that the link utilities are applied to.                       *)
(***************************************************************************)
\* The texts: up to MaxPieces of these pieces, one after the other with nothing
\* in between.
Pieces ==
    {<<"https://", "reddit.com", "/r/", "one">>,
     <<"https://", "www.", "reddit.com", "/r/", "Two", "?q=1">>,
     <<"http://", "old.", "reddit.com", "/r/", "one">>,
     <<"HTTPS://", "new.", "REDDIT.COM", "/r/", "Two", "/">>,
     <<"https://", "reddit.com", "/r/">>,
     <<"https://", "reddit.com", "/user/", "one">>,
     <<"https://", "google.com", "/r/", "one">>,
     <<"one">>,
     <<"**">>,
     <<":)">>,
     <<" ">>,
     <<"\n">>}

RECURSIVE Texts(_)
Texts(n) ==
    IF n = 0
    THEN {<< >>}
    ELSE {<< >>} \cup {p \o t : p \in Pieces, t \in Texts(n - 1)}

InitLinks ==
    /\ messages = << >>
    /\ reactions = << >>
    /\ seq = 0
    /\ foreignKeys = FALSE
    /\ now = 0
    /\ last = NoCall
    /\ calls = 0
    /\ variant = 0
    /\ content \in Texts(MaxPieces)
    /\ suppressed = {}
    /\ handlers = EmptyBag
    /\ done = Idle
    /\ events = 0
    /\ posted = {}
    /\ botReaction = {}
    /\ sent = 0
    /\ deletes = [b \in BotMsgIds |-> 0]

\* const redditLinks = detectRedditLinks(message.content)
DetectRedditLinksCall ==
    /\ Called("detectRedditLinks", "", detectRedditLinks(content), FALSE, FALSE, 0)
    /\ UNCHANGED <<messages, reactions, seq, foreignKeys, now>>

\* redditLinks.map(link => convertToRxddit(link)), link by link
ConvertToRxdditCall ==
    \E url \in {detectRedditLinks(content)[i] : i \in 1..Len(detectRedditLinks(content))} :
        /\ Called("convertToRxddit", "", [url |-> url, result |-> convertToRxddit(url)],
                  FALSE, FALSE, 0)
        /\ UNCHANGED <<messages, reactions, seq, foreignKeys, now>>

\* const convertedContent = convertMessageLinks(message.content)
ConvertMessageLinksCall ==
    /\ Called("convertMessageLinks", "", convertMessageLinks(content), FALSE, FALSE, 0)
    /\ UNCHANGED <<messages, reactions, seq, foreignKeys, now>>

\* The handler's redditLinks and convertedLinks as it passes them to
\* db.storeMessage.
LinkFieldsCall ==
    /\ Called("linkFields", "", linkFields(content), FALSE, FALSE, 0)
    /\ UNCHANGED <<messages, reactions, seq, foreignKeys, now>>

NextLinks ==
    \/ DetectRedditLinksCall
    \/ ConvertToRxdditCall
    \/ ConvertMessageLinksCall
    \/ LinkFieldsCall

SpecLinks == InitLinks /\ [][NextLinks]_vars

(***************************************************************************)
(* The ledger's contract.                                                  *)
(***************************************************************************)

\* C1: at-most-once revert. A markAsReverted call on a stored record returns true
\* exactly when the record was not yet reverted (so among any number of calls one
\* returns true and every other, also a later one, returns false), and the record
\* is reverted afterwards.
C1_AtMostOnceRevert ==
    last.op = "markAsReverted" =>
        \A row \in last.pre :
            /\ last.bool = ~row.isReverted
            /\ messages[last.id].isReverted

\* C3 as the specification states it: a record that is reverted never becomes not
\* reverted again, whatever ledger operation runs.
C3_RevertedNeverReset ==
    [][\A m \in DOMAIN messages \cap DOMAIN messages' :
            messages[m].isReverted => messages'[m].isReverted]_vars

\* C3, amended: the only operation that takes reverted from true to false is
\* storeMessage re-recording that id; the only operation that takes it from false
\* to true is markAsReverted on that id; a record that appears is not reverted.
C3_RevertedResetOnlyByStore ==
    [][/\ \A m \in DOMAIN messages \cap DOMAIN messages' :
            /\ (messages[m].isReverted /\ ~messages'[m].isReverted)
                   => (last'.op = "storeMessage" /\ last'.id = m)
            /\ (~messages[m].isReverted /\ messages'[m].isReverted)
                   => (last'.op = "markAsReverted" /\ last'.id = m)
       /\ \A m \in DOMAIN messages' \ DOMAIN messages :
            ~messages'[m].isReverted]_vars

\* A reverted record was re-recorded and is active again.
C3_Witness ==
    /\ last.op = "storeMessage"
    /\ \E row \in last.pre : row.isReverted
    /\ ~messages[last.id].isReverted

\* C4: idempotent re-record. After storeMessage the id has the record of this
\* call, with reverted = false, whether or not the id had a record before and
\* whatever that record's state was.
C4_IdempotentReRecord ==
    last.op = "storeMessage" =>
        /\ last.id \in DOMAIN messages
        /\ messages[last.id].originalContent = last.arg.originalContent
        /\ messages[last.id].botMessageId = last.arg.botMessageId
        /\ messages[last.id].createdAt = last.arg.createdAt
        /\ messages[last.id].authorId = last.arg.authorId
        /\ messages[last.id].channelId = last.arg.channelId
        /\ ~messages[last.id].isReverted

\* The second storeMessage of an id carried other content and found the first
\* record reverted.
C4_Witness ==
    /\ last.op = "storeMessage"
    /\ \E row \in last.pre :
        /\ row.isReverted
        /\ row.originalContent # last.arg.originalContent

\* C5: revert requires existence. markAsReverted on an id without a record
\* returns false, does not throw and creates no record.
C5_RevertRequiresExistence ==
    (last.op = "markAsReverted" /\ last.pre = {}) =>
        /\ ~last.bool
        /\ ~last.threw
        /\ last.id \notin DOMAIN messages

\* markAsReverted ran on an unknown id while another record is stored.
C5_Witness ==
    /\ last.op = "markAsReverted"
    /\ last.pre = {}
    /\ DOMAIN messages # {}

CleanupPcs == {"fetchChannel", "fetchBotMessage", "delete", "removeReaction"}

\* The invocations in flight and the one that finished last.
Invocations == BagToSet(handlers) \cup {done}

\* C2: the platform cleanup is performed only by an invocation whose markAsReverted
\* call returned true, and the deletion of a replacement message is attempted at
\* most once, however many author reactions are delivered and interleaved.
C2_CleanupOnlyByWinner ==
    /\ \A h \in BagToSet(handlers) : h.pc \in CleanupPcs => h.didRevert
    /\ \A b \in BotMsgIds : deletes[b] <= 1

\* In no invocation has a reactor who is not the record's author passed the author
\* check, had markAsReverted return true, attempted the deletion or attempted the
\* removal of the bot's reaction.
C6_NonAuthorInert ==
    \A h \in Invocations :
        \A row \in h.stored :
            h.user # row.authorId =>
                /\ h.pc \notin CleanupPcs
                /\ ~h.won
                /\ ~h.didRevert
                /\ ~h.triedDelete
                /\ ~h.triedRemove

\* A step that sets reverted on a record is the step of an invocation for that
\* message whose reactor is the record's author: the invocation ends with the
\* step (second bot.ts), or goes on into the cleanup with it (first bot.ts).
C6_RevertByAuthorStep ==
    \A m \in DOMAIN messages \cap DOMAIN messages' :
        (~messages[m].isReverted /\ messages'[m].isReverted) =>
            \/ \E h \in BagToSet(handlers) :
                /\ handlers' = handlers (-) SetToBag({h})
                /\ h.kind = "reaction"
                /\ h.messageId = m
                /\ h.user = messages[m].authorId
                /\ done'.didRevert
            \/ \E h \in BagToSet(handlers') :
                /\ CopiesIn(h, handlers') > CopiesIn(h, handlers)
                /\ h.didRevert
                /\ h.messageId = m
                /\ h.user = messages[m].authorId

\* C6: only the original author can revert. A trigger-emoji reaction by a user
\* whose id differs from the record's authorId never sets reverted, never deletes
\* the replacement message and never removes the bot's reaction.
C6_OnlyAuthorReverts ==
    []C6_NonAuthorInert /\ [][C6_RevertByAuthorStep]_vars

\* A reactor who is not the author had the reaction recorded and the invocation
\* returned with the record, the replacement message and the bot's reaction left
\* as they were.
C6_Witness ==
    /\ done.kind = "reaction"
    /\ done.pc = "returned"
    /\ done.recorded
    /\ \E row \in done.stored : done.user # row.authorId
    /\ done.messageId \in DOMAIN messages
    /\ ~messages[done.messageId].isReverted
    /\ messages[done.messageId].botMessageId \in posted
    /\ done.messageId \in botReaction

\* C7: every trigger-emoji reaction by a non-bot user on a tracked message is
\* recorded in the ledger, whoever the reactor is and whether or not the record is
\* already reverted (the storage itself not failing).
C7_ReactionAlwaysRecorded ==
    (done.kind = "reaction" /\ done.tracked /\ ~done.fault) => done.recorded

\* C9: the two cleanup attempts are independent. An invocation that went into the
\* cleanup attempts the removal of the bot's reaction whatever failed before it.
C9_CleanupIndependent ==
    (done.kind = "reaction" /\ done.won) => done.triedRemove

\* C10: no exception leaves a handler; every invocation completes normally.
C10_NoExceptionLeaves ==
    done.pc # "threw"

(***************************************************************************)
(* The message-created handler's contract.                                 *)
(***************************************************************************)

\* The ids channel.send has returned so far.
Issued == {BotIdSeq[i] : i \in 1..sent}

\* Every record names a replacement message the bot posted.
C11_RecordOfPostedMessage ==
    \A m \in DOMAIN messages : messages[m].botMessageId \in Issued

\* A record is written in the step in which the post of its replacement message
\* settles, before the emoji is added; the emoji is added by an invocation that
\* has posted and stored; an invocation whose post fails writes no record and
\* adds no emoji.
C11_PostStoreReactStep ==
    /\ \A m \in DOMAIN messages' :
        (m \notin DOMAIN messages
            \/ messages'[m].botMessageId # messages[m].botMessageId) =>
            /\ sent' = sent + 1
            /\ messages'[m].botMessageId = BotIdSeq[sent']
            /\ messages'[m].botMessageId \in posted'
            /\ botReaction' = botReaction
            /\ \E h \in BagToSet(handlers) : h.pc = "send" /\ h.messageId = m
    /\ \A m \in botReaction' \ botReaction :
        \E h \in BagToSet(handlers) :
            /\ h.pc = "react"
            /\ h.messageId = m
            /\ h.botMessage \in Issued
            /\ handlers' = handlers (-) SetToBag({h})
            /\ m \in DOMAIN messages
    /\ \A h \in BagToSet(handlers) :
        (h.pc = "send" /\ handlers' = handlers (-) SetToBag({h}) /\ sent' = sent) =>
            /\ messages' = messages
            /\ botReaction' = botReaction
            /\ done'.botMessage = ""

\* C11: a conversion record is created only after the replacement message was
\* posted, the handler's steps run in the order post, storeMessage, add trigger
\* emoji, every record's botMessageId is the id of a message the bot posted, and
\* a failed post leaves no record and no trigger emoji.
C11_PostThenStoreThenReact ==
    []C11_RecordOfPostedMessage /\ [][C11_PostStoreReactStep]_vars

\* An invocation posted, stored the record of its post and added the emoji.
C11_Witness ==
    /\ done.kind = "message"
    /\ done.pc = "returned"
    /\ ~done.fault
    /\ done.botMessage \in posted
    /\ done.messageId \in botReaction
    /\ done.messageId \in DOMAIN messages
    /\ messages[done.messageId].botMessageId = done.botMessage

\* The events the message-created handler ignores without a word.
SilentKinds == {"bot", "empty", "dm"}

\* An invocation for such a message is never in flight: it has returned, without
\* a post and without a failure.
C12_SilentInvocation ==
    \A h \in Invocations :
        (h.kind = "message" /\ h.event \in SilentKinds) =>
            /\ h.pc = "returned"
            /\ h.botMessage = ""
            /\ ~h.fault

\* The step that delivers such a message and ends its invocation changes neither
\* the ledger nor the channel.
C12_SilentStep ==
    (/\ events' = events + 1
     /\ handlers' = handlers
     /\ done'.kind = "message"
     /\ done'.event \in SilentKinds)
    => UNCHANGED <<messages, reactions, seq, posted, botReaction, sent, deletes>>

\* C12: the message-created handler is a silent no-op (nothing posted, no record
\* stored, no reaction added, no exception) when the author is a bot, when the
\* text is empty, or when the message is a direct message.
C12_SilentNoOp ==
    []C12_SilentInvocation /\ [][C12_SilentStep]_vars

\* A direct message was turned away while a record of another message is stored.
C12_Witness ==
    /\ done.kind = "message"
    /\ done.event = "dm"
    /\ done.pc = "returned"
    /\ DOMAIN messages # {}
    /\ done.messageId \notin DOMAIN messages

\* An invocation for a message in a channel where the bot may not send has
\* returned at once: no post, no failure, and it is not in flight to try again.
C13_NoSendInvocation ==
    \A h \in Invocations :
        (h.kind = "message" /\ h.event = "nosend") =>
            /\ h.pc = "returned"
            /\ h.botMessage = ""
            /\ ~h.fault

\* The step that delivers such a message changes neither the ledger nor the
\* channel.
C13_NoSendStep ==
    (/\ events' = events + 1
     /\ handlers' = handlers
     /\ done'.kind = "message"
     /\ done'.event = "nosend")
    => UNCHANGED <<messages, reactions, seq, posted, botReaction, sent, deletes>>

\* C13: without the permission to send messages in the channel the
\* message-created handler posts nothing, stores no record, adds no reaction, does
\* not retry and does not throw.
C13_NoPermissionNoOp ==
    []C13_NoSendInvocation /\ [][C13_NoSendStep]_vars

\* A message without the send permission was turned away after another message
\* had been converted in full.
C13_Witness ==
    /\ done.kind = "message"
    /\ done.event = "nosend"
    /\ done.pc = "returned"
    /\ posted # {}
    /\ botReaction # {}
    /\ done.messageId \notin DOMAIN messages

(***************************************************************************)
(* The reaction-added handler's contract, continued.                       *)
(***************************************************************************)

\* A reaction the handler ignores: by a bot, or with another emoji.
IgnoredReaction(h) ==
    /\ h.kind = "reaction"
    /\ (h.user = BotUser \/ h.emoji # ROBOT_EMOJI)

\* An invocation for an ignored reaction reads no record, stores no reaction,
\* never enters the revert; for a bot's reaction it has returned at once, for
\* another emoji it is at most waiting for reaction.fetch().
C14_IgnoredInvocation ==
    \A h \in Invocations :
        IgnoredReaction(h) =>
            /\ h.pc \in {"fetchReaction", "returned"}
            /\ (h.user = BotUser => h.pc = "returned")
            /\ h.stored = {}
            /\ ~h.tracked
            /\ ~h.recorded
            /\ ~h.won
            /\ ~h.didRevert
            /\ ~h.triedDelete
            /\ ~h.triedRemove

\* A step of an invocation for an ignored reaction (it starts and ends, starts
\* and waits, or ends) writes nothing to the ledger and does nothing in the
\* channel.
C14_IgnoredStep ==
    (\/ /\ events' = events + 1
        /\ handlers' = handlers
        /\ IgnoredReaction(done')
     \/ \E h \in BagToSet(handlers') :
            /\ IgnoredReaction(h)
            /\ events' = events + 1
            /\ handlers' = handlers (+) SetToBag({h})
     \/ \E h \in BagToSet(handlers) :
            /\ IgnoredReaction(h)
            /\ handlers' = handlers (-) SetToBag({h}))
    => UNCHANGED <<messages, reactions, seq, posted, botReaction, sent, deletes>>

\* C14: a reaction added by a bot identity (the bot's own trigger-emoji reaction
\* included) or with an emoji other than the trigger emoji causes no ledger write
\* and no platform action: no reaction row is stored, reverted is unchanged and
\* nothing is deleted.
C14_IgnoredReactionNoEffect ==
    []C14_IgnoredInvocation /\ [][C14_IgnoredStep]_vars

\* The bot's own trigger-emoji reaction on a converted message was delivered.
C14_Witness ==
    /\ IgnoredReaction(done)
    /\ done.user = BotUser
    /\ done.emoji = ROBOT_EMOJI
    /\ done.messageId \in botReaction
    /\ done.messageId \in DOMAIN messages
    /\ ~messages[done.messageId].isReverted
    /\ messages[done.messageId].botMessageId \in posted
    /\ reactions = << >>

(***************************************************************************)
(* The ledger's contract, continued.                                       *)
(***************************************************************************)

\* C15: cascading purge. cleanupOldMessages removes every record whose createdAt
\* is strictly older than the cutoff together with all reactions that reference
\* it, returns the number of records removed, and leaves every record at or newer
\* than the cutoff and all of its reactions unchanged; getReactions for a purged
\* id is empty afterwards.
C15_CascadingPurge ==
    [][(calls' = calls + 1 /\ last'.op = "cleanupOldMessages") =>
        LET cutoffTime == last'.arg
        IN  /\ ~last'.threw
            /\ last'.num =
                Cardinality({m \in DOMAIN messages : messages[m].createdAt < cutoffTime})
            /\ DOMAIN messages' \subseteq DOMAIN messages
            /\ \A m \in DOMAIN messages :
                IF messages[m].createdAt < cutoffTime
                THEN /\ m \notin DOMAIN messages'
                     /\ getReactions(reactions', m) = {<< >>}
                ELSE /\ m \in DOMAIN messages'
                     /\ messages'[m] = messages[m]
                     /\ getReactions(reactions', m) = getReactions(reactions, m)]_vars

\* A purge removed a record and a reaction on it and left a newer record with its
\* reaction.
C15_Witness ==
    /\ last.op = "cleanupOldMessages"
    /\ last.num = 1
    /\ Len(reactions) = 1
    /\ seq = 2
    /\ reactions[1].messageId \in DOMAIN messages
    /\ messages[reactions[1].messageId].createdAt >= last.arg

(***************************************************************************)
(* The retention sweep against the reaction-added handler.                 *)
(***************************************************************************)

\* C16: when the retention sweep removes a record while a revert attempt for it
\* is in flight, markAsReverted returns false (it does not throw) and the handler
\* performs no platform cleanup: an invocation that passed the author check and
\* whose markAsReverted returned false has attempted neither the deletion nor the
\* removal of the bot's reaction.
C16_NoCleanupAfterPurge ==
    (/\ done.kind = "reaction"
     /\ done.won
     /\ done.pc = "returned"
     /\ ~done.fault
     /\ ~done.didRevert)
    => (~done.triedDelete /\ ~done.triedRemove)

(***************************************************************************)
(* The ledger's queries.                                                   *)
(***************************************************************************)

\* C17: getStats returns, after any sequence of storeMessage, storeReaction,
\* markAsReverted, deleteMessage and cleanupOldMessages calls, the exact number of
\* records, of reactions and of reverted records, and in every reachable state
\* revertedCount <= totalMessages.
C17_StatsExact ==
    /\ getStats(messages, reactions).revertedCount
           <= getStats(messages, reactions).totalMessages
    /\ last.op = "getStats" =>
        /\ ~last.threw
        /\ last.arg.totalMessages = Cardinality(DOMAIN messages)
        /\ last.arg.totalReactions = Len(reactions)
        /\ last.arg.revertedCount =
               Cardinality({m \in DOMAIN messages : messages[m].isReverted})
        /\ last.arg.revertedCount <= last.arg.totalMessages

\* getStats was called after a record had been stored and reverted.
C17_Witness ==
    /\ last.op = "getStats"
    /\ last.arg.totalMessages = 1
    /\ last.arg.revertedCount = 1
    /\ calls = 3

\* C18: markAsReverted(id) changes nothing but the reverted flag of the record
\* with that id: every other record (its reverted flag included), every other
\* field of the target record and all reactions are left unchanged.
C18_MarkAsRevertedFrame ==
    [][(calls' = calls + 1 /\ last'.op = "markAsReverted") =>
        /\ DOMAIN messages' = DOMAIN messages
        /\ \A m \in DOMAIN messages :
            IF m = last'.id
            THEN /\ messages'[m].authorId = messages[m].authorId
                 /\ messages'[m].channelId = messages[m].channelId
                 /\ messages'[m].originalContent = messages[m].originalContent
                 /\ messages'[m].botMessageId = messages[m].botMessageId
                 /\ messages'[m].createdAt = messages[m].createdAt
            ELSE messages'[m] = messages[m]
        /\ reactions' = reactions
        /\ seq' = seq]_vars

\* A record was reverted while another record, not reverted, is stored.
C18_Witness ==
    /\ last.op = "markAsReverted"
    /\ last.id \in DOMAIN messages
    /\ messages[last.id].isReverted
    /\ \E m \in DOMAIN messages : m # last.id /\ ~messages[m].isReverted

(***************************************************************************)
(* What the reaction-added handler stores.                                 *)
(***************************************************************************)

\* The invocation that took the step: the one that is new in flight at its next
\* await or, when none is, the one that ended.
ActedIn(h) ==
    \/ CopiesIn(h, handlers') > CopiesIn(h, handlers)
    \/ /\ h = done'
       /\ \A g \in BagToSet(handlers') : CopiesIn(g, handlers') <= CopiesIn(g, handlers)

\* C19: every reaction stored by the reaction-added handler has isRevertReaction =
\* true exactly when the reacting user's id equals the authorId of the record at
\* the time the reaction is observed, whether or not the revert that follows
\* succeeds: the step that appends a row is the step of an invocation for the
\* row's message, and the row's flag says whether that invocation's user is the
\* author in the record as the step found it.
C19_RevertFlagIsAuthor ==
    [][Len(reactions') > Len(reactions) =>
        LET r == reactions'[Len(reactions')]
        IN  /\ Len(reactions') = Len(reactions) + 1
            /\ r.messageId \in DOMAIN messages
            /\ \E h \in BagToSet(handlers') \cup {done'} :
                /\ ActedIn(h)
                /\ h.kind = "reaction"
                /\ h.recorded
                /\ h.messageId = r.messageId
                /\ r.isRevertReaction = (h.user = messages[r.messageId].authorId)]_vars

\* The author's reaction and another user's reaction on one message are stored,
\* the first flagged and the second not, no invocation is in flight and the record
\* is not reverted: the revert that followed the author's reaction failed.
C19_Witness ==
    /\ handlers = EmptyBag
    /\ \E i, j \in 1..Len(reactions) :
        /\ reactions[i].messageId = reactions[j].messageId
        /\ reactions[i].isRevertReaction
        /\ ~reactions[j].isRevertReaction
        /\ reactions[i].messageId \in DOMAIN messages
        /\ ~messages[reactions[i].messageId].isReverted
        /\ reactions[i].odId = messages[reactions[i].messageId].authorId
        /\ reactions[j].odId # messages[reactions[i].messageId].authorId

\* C20: getReactions returns exactly the reactions stored for the given message
\* id, each once, in ascending order of reactedAt, whatever the order in which they
\* were inserted; it returns an empty sequence when the message has no reactions.
C20_ReactionsAscending ==
    last.op = "getReactions" =>
        LET result == last.arg
        IN  /\ ~last.threw
            /\ \A k \in 1..Len(result) :
                /\ result[k].messageId = last.id
                /\ \E i \in 1..Len(reactions) : reactions[i] = result[k]
            /\ \A i \in 1..Len(reactions) :
                reactions[i].messageId = last.id =>
                    Cardinality({k \in 1..Len(result) : result[k] = reactions[i]}) = 1
            /\ \A k, l \in 1..Len(result) :
                k < l => result[k].reactedAt <= result[l].reactedAt
            /\ (\A i \in 1..Len(reactions) : reactions[i].messageId # last.id)
                   => result = << >>

\* getReactions returned two reactions of a message, the later inserted first.
C20_Witness ==
    /\ last.op = "getReactions"
    /\ Len(last.arg) = 2
    /\ last.arg[1].id > last.arg[2].id
    /\ last.arg[1].reactedAt < last.arg[2].reactedAt
    /\ Len(reactions) = 2

\* C21: the reaction log is append-only with monotonic identifiers. Each
\* storeReaction call returns an id strictly greater than every id returned
\* before (the ids of the table ascend, none exceeds the sequence, the sequence
\* never goes back and the id returned is beyond it), also after earlier reactions
\* were removed by a purge; and no ledger operation other than the cascading purge
\* modifies or removes an existing reaction, the purge leaving the rows it keeps
\* as they were and in their order.
C21_AppendOnlyMonotonic ==
    [][/\ seq' >= seq
       /\ \A i \in 1..Len(reactions') : reactions'[i].id <= seq'
       /\ \A j, k \in 1..Len(reactions') : j < k => reactions'[j].id < reactions'[k].id
       /\ (calls' = calls + 1 /\ last'.op = "storeReaction" /\ ~last'.threw) =>
            /\ last'.num > seq
            /\ last'.num = seq'
            /\ reactions'[Len(reactions')].id = last'.num
       /\ IF calls' = calls + 1 /\ last'.op = "cleanupOldMessages"
          THEN \A j \in 1..Len(reactions') :
                  \E i \in 1..Len(reactions) : reactions'[j] = reactions[i]
          ELSE /\ Len(reactions') >= Len(reactions)
               /\ SubSeq(reactions', 1, Len(reactions)) = reactions]_vars

\* A reaction was stored after a purge had emptied the reactions table, and its id
\* is beyond the id of the reaction purged.
C21_Witness ==
    /\ last.op = "storeReaction"
    /\ ~last.threw
    /\ Len(reactions) = 1
    /\ reactions[1].id = 2
    /\ last.num = 2

\* C22: deleteMessage returns true if and only if a record with that id existed
\* and was removed by the call; afterwards hasMessage(id) is false; a call for an
\* unknown id returns false and changes nothing (it has no row to remove).
C22_DeleteRemoves ==
    last.op = "deleteMessage" =>
        /\ ~last.threw
        /\ last.bool = (last.pre # {})
        /\ ~hasMessage(messages, last.id)

\* The records a listing call is to choose from: those of the author, or of the
\* channel, it was given.
ListedIds ==
    IF last.op = "getMessagesByAuthor"
    THEN {m \in DOMAIN messages : messages[m].authorId = last.arg.key}
    ELSE {m \in DOMAIN messages : messages[m].channelId = last.arg.key}

\* C23: getMessagesByAuthor(authorId, limit) and getMessagesByChannel(channelId,
\* limit) return only records of that author (resp. channel), each once and as
\* stored, ordered by createdAt descending, at most limit of them, and these are
\* the limit most recent matching records; an unknown author or channel yields an
\* empty sequence.
C23_ListingNewestFirst ==
    last.op \in {"getMessagesByAuthor", "getMessagesByChannel"} =>
        LET result == last.arg.result
            n == Cardinality(ListedIds)
        IN  /\ ~last.threw
            /\ \A k \in 1..Len(result) :
                /\ result[k].messageId \in ListedIds
                /\ \A f \in DOMAIN messages[result[k].messageId] :
                       result[k][f] = messages[result[k].messageId][f]
            /\ \A k, l \in 1..Len(result) :
                /\ k < l => result[k].createdAt >= result[l].createdAt
                /\ k # l => result[k].messageId # result[l].messageId
            /\ Len(result) = IF last.arg.limit < n THEN last.arg.limit ELSE n
            /\ \A m \in ListedIds :
                (\A k \in 1..Len(result) : result[k].messageId # m) =>
                    \A k \in 1..Len(result) :
                        result[k].createdAt >= messages[m].createdAt
            /\ ListedIds = {} => result = << >>

\* A listing with limit 1 returned the newer of an author's two records.
C23_Witness ==
    /\ last.op = "getMessagesByAuthor"
    /\ last.arg.limit = 1
    /\ Len(last.arg.result) = 1
    /\ Cardinality(ListedIds) = 2
    /\ \E m \in ListedIds : messages[m].createdAt < last.arg.result[1].createdAt

(***************************************************************************)
(* The message-created handler's contract, continued.                      *)
(***************************************************************************)

\* A message-created invocation waits for its post only before it has posted, and
\* for its reaction only after its one post; once a step of it failed it has
\* ended.
C25_OneAttempt ==
    \A h \in Invocations :
        h.kind = "message" =>
            /\ h.pc \in {"send", "react", "returned"}
            /\ (h.pc = "send" => h.botMessage = "" /\ ~h.fault)
            /\ (h.pc = "react" => h.botMessage \in Issued /\ ~h.fault)
            /\ (h.fault => h.pc = "returned")

\* A step posts at most one message, its post is the step of an invocation waiting
\* for its post, a record is written only in a step that posts, and the step in
\* which an invocation fails after its post posts nothing.
C25_OnePostStep ==
    /\ sent' \in {sent, sent + 1}
    /\ sent' = sent + 1 =>
        /\ posted' = posted \cup {BotIdSeq[sent']}
        /\ \E h \in BagToSet(handlers) :
            /\ h.pc = "send"
            /\ CopiesIn(h, handlers') = CopiesIn(h, handlers) - 1
    /\ sent' = sent => posted' \subseteq posted
    /\ \A m \in DOMAIN messages' :
        (m \notin DOMAIN messages
            \/ messages'[m].botMessageId # messages[m].botMessageId) => sent' = sent + 1
    /\ \A h \in BagToSet(handlers) :
        (h.pc = "react" /\ handlers' = handlers (-) SetToBag({h})) =>
            /\ sent' = sent
            /\ messages' = messages

\* C25: no automatic retry. One delivery of a message-created event leads to at
\* most one post of a replacement message and at most one storeMessage call; when
\* the post or any later step fails, the handler abandons the event without
\* repeating any platform call, and it posts no error message into the channel.
C25_NoRetry ==
    []C25_OneAttempt /\ [][C25_OnePostStep]_vars

\* An invocation posted its replacement, failed after that and ended, and the
\* channel holds that one post.
C25_Witness ==
    /\ done.kind = "message"
    /\ done.fault
    /\ done.pc = "returned"
    /\ done.botMessage \in posted
    /\ sent = 1
    /\ handlers = EmptyBag

(***************************************************************************)
(* The reaction-added handler's lookup of the record.                      *)
(***************************************************************************)

\* An invocation that found a record found the record of the message reacted to,
\* looked up by message_id where the reaction is on the original message and by
\* bot_message_id where it is on the replacement message, and the id it passes to
\* the ledger is the message_id of that record. An invocation for the robot emoji
\* of a user that ended without a failure and without a record had none to find.
C24_ResolvedRecord ==
    \A h \in Invocations :
        h.kind = "reaction" =>
            /\ ~h.tracked => h.key = ""
            /\ h.tracked =>
                /\ h.stored # {}
                /\ \A row \in h.stored :
                    IF variant = 3
                    THEN /\ row.messageId \in DOMAIN messages
                         /\ messages[row.messageId].botMessageId = h.messageId
                         /\ row.botMessageId = h.messageId
                         /\ h.key \in {"", row.messageId}
                    ELSE /\ h.messageId \in DOMAIN messages
                         /\ row.botMessageId = messages[h.messageId].botMessageId
                         /\ h.key \in {"", h.messageId}
            /\ (/\ h.pc = "returned"
                /\ ~h.tracked
                /\ ~h.fault
                /\ h.emoji = ROBOT_EMOJI
                /\ ~ignoresUser(h.user)) =>
                    IF variant = 3
                    THEN \A m \in DOMAIN messages : messages[m].botMessageId # h.messageId
                    ELSE h.messageId \notin DOMAIN messages

\* The reaction a step records and the record a step marks as reverted are those
\* of the id that an invocation resolved.
C24_KeyedStep ==
    /\ Len(reactions') > Len(reactions) =>
        /\ reactions'[Len(reactions')].messageId \in DOMAIN messages
        /\ \E h \in BagToSet(handlers') \cup {done'} :
            /\ h.recorded
            /\ h.key = reactions'[Len(reactions')].messageId
    /\ \A m \in DOMAIN messages :
        messages'[m].isReverted # messages[m].isReverted =>
            \E h \in BagToSet(handlers') \cup {done'} : h.won /\ h.key = m

RECURSIVE Words(_, _)
Words(s, i) ==
    IF i > Len(s)
    THEN << >>
    ELSE IF s[i] \in WhiteSpace
    THEN Words(s, i + 1)
    ELSE <<SubSeq(s, i, nonSpaceEnd(s, i))>> \o Words(s, nonSpaceEnd(s, i) + 1)

\* A text with every word replaced by one mark: its white space, in place.
RECURSIVE Skeleton(_, _)
Skeleton(s, i) ==
    IF i > Len(s)
    THEN << >>
    ELSE IF s[i] \in WhiteSpace
    THEN <<s[i]>> \o Skeleton(s, i + 1)
    ELSE <<"word">> \o Skeleton(s, nonSpaceEnd(s, i) + 1)

\* The positions of s where one of the two patterns matches.
LinkStarts(s) ==
    {i \in 1..Len(s) : matchEnd(1, s, i) # 0 \/ matchEnd(2, s, i) # 0}

\* A word that is a recognized link from its first character to its last.
IsLink(w) == 1 \in LinkStarts(w)

\* The recognized links that are a word of the text at two places or more.
TwiceLinks(text) ==
    LET w == Words(text, 1)
    IN  {w[i] : i \in {k \in 1..Len(w) :
                        IsLink(w[k]) /\ \E j \in 1..Len(w) : j # k /\ w[j] = w[k]}}

HasRedditHost(w) == \E i \in 1..Len(w) : w[i] \in RedditHosts

\* C26: detection is deduplicated and conversion is not: for a text in which a
\* recognized link L occurs twice, detectRedditLinks returns L once (and no link
\* twice), while convertMessageLinks replaces both occurrences, each at its own
\* position: the words and the white space of the text stay where they are, and
\* every word that was L has the host rxddit.com and no Reddit host.
C26_DetectOnceConvertAll ==
    /\ last.op = "detectRedditLinks" =>
        /\ \A i, j \in 1..Len(last.arg) : last.arg[i] = last.arg[j] => i = j
        /\ \A L \in TwiceLinks(content) :
            Cardinality({i \in 1..Len(last.arg) : last.arg[i] = L}) = 1
    /\ last.op = "convertMessageLinks" =>
        LET w == Words(content, 1)
            r == Words(last.arg, 1)
        IN  /\ Skeleton(last.arg, 1) = Skeleton(content, 1)
            /\ Len(r) = Len(w)
            /\ \A i \in 1..Len(w) :
                w[i] \in TwiceLinks(content) =>
                    /\ ~HasRedditHost(r[i])
                    /\ r[i][1] = "https://"
                    /\ r[i][2] = "rxddit.com"

\* detectRedditLinks was applied to a text that holds a link twice and returned
\* the link alone.
C26_Witness ==
    /\ last.op = "detectRedditLinks"
    /\ TwiceLinks(content) # {}
    /\ Len(last.arg) = 1
    /\ last.arg[1] \in TwiceLinks(content)

\* The first position of the text where the link L is matched.
FirstAppearance(text, L) ==
    LET at == {i \in 1..Len(text) :
                \E pattern \in {1, 2} :
                    /\ matchEnd(pattern, text, i) # 0
                    /\ SubSeq(text, i, matchEnd(pattern, text, i)) = L}
    IN  CHOOSE i \in at : \A k \in at : i <= k

\* C27: detectRedditLinks returns the matched links in the order of their first
\* appearance in the text, for every text and every mix of host variants
\* (reddit.com, www., old., new.).
C27_FirstAppearanceOrder ==
    last.op = "detectRedditLinks" =>
        \A i, j \in 1..Len(last.arg) :
            i < j => FirstAppearance(content, last.arg[i])
                        < FirstAppearance(content, last.arg[j])

\* C28: for every recognized link L, convertToRxddit(L) has the canonical host
\* rxddit.com with the https scheme, and its path, query string and trailing slash
\* are exactly those of L, the case of the path preserved.
C28_PathAndQueryKept ==
    last.op = "convertToRxddit" =>
        LET L == last.arg.url
            r == last.arg.result
            j == IF hostEnd(1, L, 1) # 0 THEN hostEnd(1, L, 1) ELSE hostEnd(2, L, 1)
        IN  /\ Len(r) >= 2
            /\ r[1] = "https://"
            /\ r[2] = "rxddit.com"
            /\ SubSeq(r, 3, Len(r)) = SubSeq(L, j, Len(L))

\* C29: convertMessageLinks changes a text only inside matched link spans: every
\* span of the text that is not part of a recognized link (plain text, markdown
\* punctuation, emoji, newlines, unrelated URLs) appears unchanged and in the same
\* order in the result, and a text without recognized links is returned unchanged.
\* A link span runs from the start of a match to the end of its word: the white
\* space stays in place, a word without a match is kept, and so is the part of a
\* word before its first match.
C29_OnlyLinkSpansChange ==
    last.op = "convertMessageLinks" =>
        LET w == Words(content, 1)
            r == Words(last.arg, 1)
        IN  /\ Skeleton(last.arg, 1) = Skeleton(content, 1)
            /\ Len(r) = Len(w)
            /\ \A i \in 1..Len(w) :
                IF LinkStarts(w[i]) = {}
                THEN r[i] = w[i]
                ELSE LET first == CHOOSE k \in LinkStarts(w[i]) :
                                    \A n \in LinkStarts(w[i]) : k <= n
                     IN  /\ Len(r[i]) >= first - 1
                         /\ SubSeq(r[i], 1, first - 1) = SubSeq(w[i], 1, first - 1)
            /\ LinkStarts(content) = {} => last.arg = content

\* convertMessageLinks changed a text that holds a link, markdown punctuation and
\* an unrelated URL or a profile URL.
C29_Witness ==
    /\ last.op = "convertMessageLinks"
    /\ last.arg # content
    /\ \E i \in 1..Len(content) : content[i] \in {"**", ":)", "\n"}
    /\ \E i \in 1..Len(content) : content[i] \in {"google.com", "/user/"}

\* The text holds a Reddit host with /r/ right after it.
HasPostPath(text) ==
    \E i \in 1..Len(text) - 1 : text[i] \in RedditHosts /\ text[i + 1] = "/r/"

\* C30: a recognized host without the /r/ path convention (for instance a
\* user-profile path) is not a match: detectRedditLinks returns an empty sequence
\* for it, and so do texts with no link, the empty text and texts that hold only
\* non-Reddit URLs.
C30_NoPostPathNoMatch ==
    last.op = "detectRedditLinks" =>
        /\ ~HasPostPath(content) => last.arg = << >>
        /\ \A i \in 1..Len(last.arg) : HasPostPath(last.arg[i])

\* detectRedditLinks returned nothing for a text with a user-profile URL on a
\* Reddit host.
C30_Witness ==
    /\ last.op = "detectRedditLinks"
    /\ last.arg = << >>
    /\ \E i \in 1..Len(content) - 1 :
        content[i] \in RedditHosts /\ content[i + 1] = "/user/"

\* C39: convertMessageLinks is idempotent and its output holds no recognized
\* link: for every text t, detectRedditLinks(convertMessageLinks(t)) is empty and
\* convertMessageLinks(convertMessageLinks(t)) = convertMessageLinks(t), although
\* the two patterns are applied one after the other to the partly converted text.
C39_ConvertIdempotent ==
    last.op = "convertMessageLinks" =>
        /\ last.arg = convertMessageLinks(content)
        /\ detectRedditLinks(last.arg) = << >>
        /\ LinkStarts(last.arg) = {}
        /\ convertMessageLinks(last.arg) = last.arg

\* convertMessageLinks changed a text in which a link of the second pattern holds
\* a link of the first, or the other way round.
C39_Witness ==
    /\ last.op = "convertMessageLinks"
    /\ last.arg # content
    /\ \E w \in {Words(content, 1)[i] : i \in 1..Len(Words(content, 1))} :
        /\ \E i \in LinkStarts(w) : matchEnd(1, w, i) # 0
        /\ \E i \in LinkStarts(w) : matchEnd(2, w, i) # 0

(***************************************************************************)
(* The ledger's contract, continued.                                       *)
(***************************************************************************)

C33_OnePassesRevertedCheck ==
    variant = 2 =>
        /\ \A m \in MsgIds :
            LET passed == {h \in BagToSet(handlers) :
                            h.kind = "reaction" /\ h.won /\ h.messageId = m}
            IN  /\ Cardinality({h.stored : h \in passed}) <= 1
                /\ \A h \in passed :
                    /\ CopiesIn(h, handlers) = 1
                    /\ \A g \in passed : g.pc = h.pc
        /\ \A b \in BotMsgIds : deletes[b] <= 1

\* C38: the reactor identity reaches the ledger: for every reaction stored by the
\* reaction-added handler, the user id persisted by storeReaction and returned by
\* getReactions equals the id of the user who reacted, i.e. every call site passes
\* the reactor id in the field that storeReaction reads. Here: the object that an
\* invocation handed to db.storeReaction carries the reactor in odId, and the call
\* stored a row with it unless the storage failed.
C38_ReactorReachesLedger ==
    \A h \in Invocations :
        (h.kind = "reaction" /\ h.key # "") =>
            /\ \A row \in h.stored : Get(ReactionOf(h, row), "odId") = h.user
            /\ ~h.fault => h.recorded
            /\ h.recorded =>
                \E i \in 1..Len(reactions) :
                    reactions[i].messageId = h.key /\ reactions[i].odId = h.user

\* C31: every record stored by the message-created handler keeps originalLinks
\* and convertedLinks in lockstep: both sequences have the same length and
\* convertedLinks[i] = convertToRxddit(originalLinks[i]) for every index i. The
\* sequences are what JSON.parse gives for the two stored fields; originalLinks is
\* what detectRedditLinks found in the message.
C31_LinksInLockstep ==
    /\ last.op = "linkFields" =>
        LET originalLinks == JSONparse(last.arg.originalLinks, 1)
            convertedLinks == JSONparse(last.arg.convertedLinks, 1)
        IN  /\ originalLinks = detectRedditLinks(content)
            /\ Len(convertedLinks) = Len(originalLinks)
            /\ \A i \in 1..Len(originalLinks) :
                convertedLinks[i] = convertToRxddit(originalLinks[i])
    /\ \A m \in DOMAIN messages :
        LET originalLinks == JSONparse(messages[m].originalLinks, 1)
            convertedLinks == JSONparse(messages[m].convertedLinks, 1)
        IN  /\ Len(convertedLinks) = Len(originalLinks)
            /\ \A i \in 1..Len(originalLinks) :
                convertedLinks[i] = convertToRxddit(originalLinks[i])

\* The link fields were made for a message with two links of different hosts that
\* convert to the same link.
C31_Witness ==
    /\ last.op = "linkFields"
    /\ Len(JSONparse(last.arg.originalLinks, 1)) = 2
    /\ JSONparse(last.arg.convertedLinks, 1)[1] = JSONparse(last.arg.convertedLinks, 1)[2]

\* C37: duplicate delivery of a message-created event causes no duplication: when
\* the same original message is handled twice, the ledger holds exactly one record
\* for it and every replacement message that is still posted is the botMessageId
\* of that record, so no posted replacement is left that the author cannot revert.
\* Here: the step that replaces the record of a message by one of another
\* replacement message does not leave the earlier replacement message posted.
C37_DuplicateDeliveryStep ==
    \A m \in DOMAIN messages :
        (m \in DOMAIN messages' /\ messages'[m].botMessageId # messages[m].botMessageId)
            => messages[m].botMessageId \notin posted'

C37_NoDuplicateReplacement == [][C37_DuplicateDeliveryStep]_vars

(***************************************************************************)
(* The embed-suppression variant: the delayed auto-revert.                 *)
(***************************************************************************)
\* Video or gallery content, as the platform marks it on an embed: a video
\* field, the type "video", or a rich embed that rxddit provides.
VideoOrGalleryContent(embed) ==
    \/ embed.video
    \/ embed.type = "video"
    \/ embed.type = "rich" /\ embed.provider \in {"rxddit", "Rxddit"}

ShowsVideoOrGallery(embeds) ==
    \E i \in 1..Len(embeds) : VideoOrGalleryContent(embeds[i])

\* An invocation of the message-created handler that called markAsReverted had
\* fetched the replacement message, and none of its embeds was video or gallery.
C35_CalledWithoutVideo ==
    \A h \in Invocations :
        (h.kind = "message" /\ h.key # "") =>
            /\ h.fetched
            /\ ~ShowsVideoOrGallery(h.embeds)
            /\ h.key = h.messageId

\* The step that ends the embed check on a failed fetch or on a video or gallery
\* embed changes no record and deletes no message.
C35_KeepStep ==
    \A h \in BagToSet(handlers) :
        (/\ h.pc = "fetchUpdated"
         /\ handlers' = handlers (-) SetToBag({h})
         /\ ~done'.fetched \/ ShowsVideoOrGallery(done'.embeds)) =>
            /\ done'.key = ""
            /\ messages' = messages
            /\ posted' = posted
            /\ suppressed' = suppressed
            /\ deletes' = deletes

\* C35: in the embed-suppression variant the auto-revert calls markAsReverted only
\* when, after the wait, the replacement message's embeds were fetched and none of
\* them is video or gallery content; when the fetch fails or such an embed is
\* there, the handler leaves the record active and the replacement posted.
C35_AutoRevertGuarded ==
    []C35_CalledWithoutVideo /\ [][C35_KeepStep]_vars

\* An auto-revert went through on a rich embed that rxddit does not provide, and
\* the record is reverted and the replacement gone.
C35_Witness ==
    /\ done.kind = "message"
    /\ done.fetched
    /\ Len(done.embeds) = 1
    /\ done.embeds[1].type = "rich"
    /\ done.won
    /\ done.messageId \in DOMAIN messages
    /\ messages[done.messageId].isReverted
    /\ done.botMessage \notin posted

(***************************************************************************)
(* The embed-suppression variant: the auto-revert and the author's revert  *)
(* reaction on the replacement message.                                    *)
(***************************************************************************)
\* The invocations of the reaction handler for the author's robot reaction on the
\* replacement message of a record the ledger holds, without a storage failure.
AuthorRevertReactions ==
    {r \in Invocations :
        /\ r.kind = "reaction"
        /\ r.emoji = ROBOT_EMOJI
        /\ r.tracked
        /\ ~r.fault
        /\ \E row \in r.stored : isAuthorReaction(r.user, row)}

\* The invocations of the message-created handler that came to the embed check.
AutoReverts ==
    {a \in Invocations : a.kind = "message" /\ a.fetched}

====
